---- MODULE Spec2Model ----
(***************************************************************************)
(* Storage service of the remote file system: the HTTP handlers of         *)
(* routes/filesRoutes.js, routes/mkdirRoutes.js and routes/listRoutes.js   *)
(* over the storage directory (disk) and the SQLite table `files` (db),    *)
(* reached through dao/fileDAO.js.                                         *)
(*                                                                         *)
(* A path is the sequence of its '/'-separated components: "./a/b" is      *)
(* <<".", "a", "b">> and "." is <<".">>.  The storage directory ROOT_DIR   *)
(* is the absolute path <<".">>.                                           *)
(***************************************************************************)
EXTENDS Integers, Sequences, FiniteSets, TLC

VARIABLES
    disk,            \* absolute path -> [kind, data]: the storage directory tree
    db,              \* the rows of table files
    nextId,          \* the next AUTOINCREMENT id of table files
    req,             \* the last request served
    resp,            \* the response to it
    allOk,           \* every mutating request served so far responded 2xx
    now,             \* the clock, in seconds
    stat,            \* followed path -> [mode, atime, mtime] of its entry on disk
    meta,            \* followed path -> [permissions, mtime, version] of its row
    backendChanges,  \* the followed paths in the set backendChanges
    fsEvents,        \* the watcher's events of followed paths, not yet handled
    pendingUnlink,   \* the path of the pending unlink, <<>> for null
    handled,         \* the event the watcher handled in the latest step
    emitted,         \* the fs_change events the latest step emitted
    unseen,          \* the followed paths written out of band and not announced since
    again,           \* the latest step served the attribute request of the step before
    task,            \* the handler that runs statement by statement
    pending,         \* the statements handed to the database and not yet run
    calls            \* the handlers that run concurrently, each at one of its awaits

\* The attributes the model follows.
attrs == <<now, stat, meta>>

\* The state of the watcher.
watch == <<backendChanges, fsEvents, pendingUnlink, handled, emitted>>

vars == <<disk, db, nextId, req, resp, allOk, now, stat, meta,
          backendChanges, fsEvents, pendingUnlink, handled, emitted, unseen, again,
          task, pending, calls>>

----------------------------------------------------------------------------
\* Bounds of the model.

\* Largest file size, in bytes, a write may produce.
MaxSize == 3
\* Largest row id table files hands out.
MaxId == 2
\* Most components below the storage root of a path the watcher cleans.
MaxDepth == 3
\* Latest second the clock reaches.
MaxTime == 2
\* Number of requests handled concurrently.
MaxCalls == 2
\* Largest version a followed row reaches.
MaxVersion == 3
\* Most events the watcher has yet to handle.
MaxEvents == 2

\* Names of the entries of the storage directory, and of their entries.
TopNames == {"a", "b"}
SubNames == {"c"}
\* Payload bytes; 0 is what the file system reads back from a hole.
Bytes == {1, 2}

Max(a, b) == IF a >= b THEN a ELSE b
Min(a, b) == IF a <= b THEN a ELSE b

----------------------------------------------------------------------------
\* Paths (node:path, POSIX).

ROOT_DIR == <<".">>

\* The first component of a path such as "/.Trash-1000/files/x".
TrashDir == "/.Trash-1000"

\* The absolute paths of the entries requests name: the entries of the storage
\* directory and their entries.
TreePaths ==
    {<<".", n>> : n \in TopNames} \cup {<<".", n, m>> : n \in TopNames, m \in SubNames}

\* The entries of the storage directory whose attributes (mode, times,
\* permissions, version) the model follows.
Followed == {<<".", "v">>, <<".", "w">>}

\* The absolute paths the model's disk has room for: the tree, a trash
\* directory with its entries, and the followed entries.
DiskPaths ==
    {ROOT_DIR} \cup TreePaths
               \cup {<<".", TrashDir>>} \cup {<<".", TrashDir, m>> : m \in SubNames}
               \cup Followed

\* path.dirname: the path without its last component; "." for a single
\* component, "/" for a single component that starts with "/".
Dirname(p) ==
    IF Len(p) > 1 THEN SubSeq(p, 1, Len(p) - 1)
    ELSE IF p = <<TrashDir>> THEN <<"/">>
    ELSE <<".">>

\* path.basename: the last component.
Basename(p) == p[Len(p)]

\* path.join(ROOT_DIR, relPath): the "." components of relPath are dropped.
Join(relPath) == ROOT_DIR \o SelectSeq(relPath, LAMBDA c : c # ".")

\* if (relPath.startsWith('././')) relPath = relPath.slice(2)
Strip(relPath) ==
    IF Len(relPath) >= 3 /\ relPath[1] = "." /\ relPath[2] = "."
    THEN Tail(relPath)
    ELSE relPath

\* oldRelPath.startsWith("/.Trash-")
IsRestore(relPath) == relPath[1] = TrashDir

\* a is p or lies below p.
IsPrefix(p, a) == Len(p) <= Len(a) /\ SubSeq(a, 1, Len(p)) = p

\* a, found below old, carried below new.
Rebase(a, old, new) == new \o SubSeq(a, Len(old) + 1, Len(a))

----------------------------------------------------------------------------
\* The disk (node:fs over the storage directory).

Absent == [kind |-> "none", data |-> <<>>]
Dir == [kind |-> "dir", data |-> <<>>]
File(data) == [kind |-> "file", data |-> data]

\* st_size of a directory, as fs.stat reports it.
DirSize == 4096

\* The errno of resolving absolute path a (fs.stat): ENOTDIR when a component
\* before the last is a file, ENOENT when a component is missing.
StatErr(d, a) ==
    IF \E k \in 1..(Len(a) - 1) :
           SubSeq(a, 1, k) \in DiskPaths /\ d[SubSeq(a, 1, k)].kind = "file"
    THEN "ENOTDIR"
    ELSE IF a \notin DiskPaths \/ d[a].kind = "none"
         THEN "ENOENT"
         ELSE "OK"

\* fs.existsSync
ExistsSync(d, a) == StatErr(d, a) = "OK"

\* stats.size
StatSize(d, a) == IF d[a].kind = "dir" THEN DirSize ELSE Len(d[a].data)

\* fs.rm(a, {recursive: true, force: true}) and fs.unlink(a) on a file.
Remove(d, a) == [q \in DiskPaths |-> IF IsPrefix(a, q) THEN Absent ELSE d[q]]

\* fs.rename(old, new) once it succeeds: the subtree at old is carried to new.
Move(d, old, new) ==
    [q \in DiskPaths |->
        IF IsPrefix(new, q)
        THEN LET src == Rebase(q, new, old)
             IN IF src \in DiskPaths THEN d[src] ELSE Absent
        ELSE IF IsPrefix(old, q) THEN Absent ELSE d[q]]

\* The errno of fs.rename(old, new), new not existing.
RenameErr(d, old, new) ==
    IF StatErr(d, old) # "OK" THEN StatErr(d, old)
    ELSE IF StatErr(d, Dirname(new)) # "OK" THEN StatErr(d, Dirname(new))
    ELSE IF d[Dirname(new)].kind # "dir" THEN "ENOTDIR"
    ELSE IF d[old].kind = "dir" /\ IsPrefix(old, new) THEN "EINVAL"
    ELSE "OK"

\* fs.mkdir(a, {recursive: true}): a and its missing ancestors become
\* directories.
MkdirP(d, a) ==
    [q \in DiskPaths |-> IF IsPrefix(q, a) /\ d[q].kind = "none" THEN Dir ELSE d[q]]

----------------------------------------------------------------------------
\* Table files (index.js bootstrap) and its access object (dao/fileDAO.js).
\* A row is [id, path, parent_id, parent, name, is_dir, size]; NULL is 0 for
\* parent_id.

NULL == 0

Row(id, path, parent_id, parent, name, is_dir, size) ==
    [id |-> id, path |-> path, parent_id |-> parent_id, parent |-> parent,
     name |-> name, is_dir |-> is_dir, size |-> size]

\* SELECT * FROM files WHERE parent=?
getFilesByDirectory(t, parent) == {r \in t : r.parent = parent}

\* SELECT * FROM files WHERE path=?  (path is UNIQUE)
getFileByPath(t, path) == {r \in t : r.path = path}

\* getIdByPath: the id of the row at path, null without one.
getIdByPath(t, path) ==
    IF \E r \in t : r.path = path
    THEN (CHOOSE r \in t : r.path = path).id
    ELSE NULL

\* FOREIGN KEY(parent_id) REFERENCES files(id) ON DELETE CASCADE: the ids
\* deleted together with the ids in gone.
RECURSIVE Cascade(_, _)
Cascade(t, gone) ==
    LET more == {r.id : r \in {x \in t : x.parent_id \in gone}}
    IN IF more \subseteq gone THEN gone ELSE Cascade(t, gone \cup more)

\* deleteFile: DELETE FROM files WHERE path = ?
deleteFile(t, path) ==
    LET gone == Cascade(t, {r.id : r \in getFileByPath(t, path)})
    IN {r \in t : r.id \notin gone}

\* createDirectory: INSERT INTO files ...; the UNIQUE path rejects a second
\* row at the same path.
createDirectory(t, id, path, parent, name, is_dir, size) ==
    IF getFileByPath(t, path) # {}
    THEN [err |-> TRUE, db |-> t, used |-> 0]
    ELSE [err |-> FALSE,
          db |-> t \cup {Row(id, path, getIdByPath(t, Dirname(path)), parent,
                             name, is_dir, size)},
          used |-> 1]

\* updateFile with ON CONFLICT(path) DO NOTHING: the row keeps its size.
updateFileKeepSize(t, id, path, parent, name, is_dir, size) ==
    IF getFileByPath(t, path) # {}
    THEN [db |-> t, used |-> 0]
    ELSE [db |-> t \cup {Row(id, path, getIdByPath(t, Dirname(path)), parent,
                             name, is_dir, size)},
          used |-> 1]

\* updateFile: INSERT ... ON CONFLICT(path) DO UPDATE SET size=excluded.size, ...
updateFile(t, id, path, parent, name, is_dir, size) ==
    IF getFileByPath(t, path) # {}
    THEN [db |-> {IF r.path = path THEN [r EXCEPT !.size = size] ELSE r : r \in t},
          used |-> 0]
    ELSE [db |-> t \cup {Row(id, path, getIdByPath(t, Dirname(path)), parent,
                             name, is_dir, size)},
          used |-> 1]

\* rename: UPDATE files SET path=?, parent_id=?, parent=?, name=? WHERE path=?
\* The UNIQUE path rejects the update when another row holds newPath.
rename(t, oldPath, newPath) ==
    IF getFileByPath(t, oldPath) # {} /\ oldPath # newPath
       /\ getFileByPath(t, newPath) # {}
    THEN [err |-> TRUE, db |-> t]
    ELSE [err |-> FALSE,
          db |-> {IF r.path = oldPath
                  THEN [r EXCEPT !.path = newPath,
                                 !.parent_id = getIdByPath(t, Dirname(newPath)),
                                 !.parent = Dirname(newPath),
                                 !.name = Basename(newPath)]
                  ELSE r : r \in t}]

\* syncMetadataFromDisk: UPDATE files SET size = ? ... WHERE path = ?, from
\* fs.stat of the path; a failing stat is logged and nothing is updated.
syncMetadataFromDisk(t, d, relPath) ==
    IF ExistsSync(d, Join(relPath))
    THEN {IF r.path = relPath THEN [r EXCEPT !.size = StatSize(d, Join(relPath))]
          ELSE r : r \in t}
    ELSE t

----------------------------------------------------------------------------
\* Attributes of the followed entries: what fs.stat reports besides the size,
\* and the columns mtime, permissions and version of their rows.

\* NaN, as parseInt returns it.
NaN == -1

\* parseInt(digits, 8): the value of the longest prefix of octal digits, NaN
\* without one.
RECURSIVE OctalPrefix(_)
OctalPrefix(ds) ==
    IF ds = <<>> \/ Head(ds) > 7 THEN <<>> ELSE <<Head(ds)>> \o OctalPrefix(Tail(ds))

RECURSIVE OctalValue(_)
OctalValue(ds) ==
    IF ds = <<>> THEN 0 ELSE 8 * OctalValue(SubSeq(ds, 1, Len(ds) - 1)) + ds[Len(ds)]

ParseOct(ds) == IF OctalPrefix(ds) = <<>> THEN NaN ELSE OctalValue(OctalPrefix(ds))

\* n.toString(8): the octal digits of n, without leading zeros.
RECURSIVE ToOct(_)
ToOct(n) == IF n < 8 THEN <<n>> ELSE ToOct(n \div 8) \o <<n % 8>>

\* (stats.mode & 0o777).toString(8)
Permissions(mode) == ToOct(mode % 512)

\* The mode of a file fs.promises.open creates (0o666 under umask 022).
FileMode == 420

Stat(mode, atime, mtime) == [mode |-> mode, atime |-> atime, mtime |-> mtime]
NoStat == Stat(0, 0, 0)

\* The followed columns of a row; version 0 stands for no row.
Meta(permissions, mtime, version) ==
    [permissions |-> permissions, mtime |-> mtime, version |-> version]
NoMeta == Meta(<<>>, 0, 0)

\* updateFile with INSERT OR REPLACE: the row starts again at version 1.
updateFileReplace(m, mtime, permissions) ==
    Meta(permissions, mtime, 1)

\* INSERT ... VALUES (..., 1) ON CONFLICT(path) DO UPDATE SET mtime=excluded.mtime,
\* permissions=COALESCE(excluded.permissions, files.permissions),
\* version=files.version + 1: the followed columns after updateFile.
updateFileMeta(m, mtime, permissions) ==
    Meta(permissions, mtime, m.version + 1)

\* UPDATE files SET permissions=?, version=version+1 WHERE path=?
updatePermissions(m, permissions) ==
    IF m.version = 0 THEN m ELSE Meta(permissions, m.mtime, m.version + 1)

\* The followed entries that are gone from disk d lose their attributes, and
\* the followed paths without a row in t their columns.
Forget(st, d) == [a \in Followed |-> IF d[a].kind = "none" THEN NoStat ELSE st[a]]
ForgetMeta(m, t) == [a \in Followed |-> IF getFileByPath(t, a) = {} THEN NoMeta ELSE m[a]]

----------------------------------------------------------------------------
\* The watcher's bookkeeping (index.js).

\* An event chokidar raises for a followed path; oob tells whether a process
\* other than the server made the change.
Event(ev, path, oob) == [ev |-> ev, path |-> path, oob |-> oob]
NoEvent == Event("none", <<>>, FALSE)

\* The attributes an fs_change event carries.
Payload(size, mtime, permissions) ==
    [size |-> size, mtime |-> mtime, permissions |-> permissions]

\* size: 0, mtime: 0, permissions: "000" of an unlink event.
UnlinkPayload == Payload(0, 0, <<0, 0, 0>>)

\* buildMetadataPayload(absPath): what fs.stat reports for the path.
buildMetadataPayload(d, st, absPath) ==
    Payload(StatSize(d, absPath), st[absPath].mtime, Permissions(st[absPath].mode))

\* An fs_change event: io.emit('fs_change', {op, oldPath, ...meta})
FsChange(op, relPath, oldPath, payload) ==
    [op |-> op, relPath |-> relPath, oldPath |-> oldPath, payload |-> payload]

\* awaitWriteFinish: chokidar holds the add or change event of a file back
\* until the file has been stable for 200 ms, so a write of a file whose
\* event is still held raises no further event, and the removal of the file
\* cancels the held event and is itself not reported when that was an add.
Held(q, a) == {i \in DOMAIN q : q[i].path = a /\ q[i].ev \in {"add", "change"}}

Raise(q, e) ==
    LET rest == SelectSeq(q, LAMBDA x : ~(x.path = e.path /\ x.ev \in {"add", "change"}))
    IN IF e.ev = "none" THEN q
       ELSE IF e.ev = "unlink"
       THEN IF \E i \in Held(q, e.path) : q[i].ev = "add" THEN rest ELSE Append(rest, e)
       ELSE IF Held(q, e.path) # {} THEN q
       ELSE Append(q, e)

\* A route handler served a request naming absolute path a, and the change
\* it made on disk raises event e: backendChanges.add(filePathAbs).
Bookkeeping(a, added, e) ==
    /\ backendChanges' = IF added THEN backendChanges \cup ({a} \cap Followed)
                         ELSE backendChanges
    /\ fsEvents' = IF a \in Followed THEN Raise(fsEvents, e) ELSE fsEvents
    /\ Len(fsEvents') <= MaxEvents
    /\ pendingUnlink' = pendingUnlink
    /\ handled' = NoEvent
    /\ emitted' = <<>>
    /\ unseen' = IF e.ev = "unlink" THEN unseen \ {e.path} ELSE unseen
    /\ UNCHANGED <<task, pending, calls>>

\* A route handler other than those of the attribute requests served a
\* request.
Served(a, added, e) ==
    /\ Bookkeeping(a, added, e)
    /\ again' = FALSE

\* A route handler that leaves backendChanges alone served a request.
Quiet == Served(<<>>, FALSE, NoEvent)

----------------------------------------------------------------------------
\* Requests and responses.

NoRange == [present |-> FALSE, s |-> <<>>, e |-> <<>>]
Range(s, e) == [present |-> TRUE, s |-> s, e |-> e]

Request(op, path, path2, offset, chunks, range) ==
    [op |-> op, path |-> path, path2 |-> path2, offset |-> offset,
     chunks |-> chunks, range |-> range, args |-> <<>>]

\* A request for an attribute change: args are the values of its query
\* parameters after relPath, each a sequence of digits, <<>> when omitted.
AttrRequest(op, path, args) ==
    [Request(op, path, <<>>, 0, <<>>, NoRange) EXCEPT !.args = args]

\* status: the HTTP status written; err: the handler threw after the status
\* line and headers were written, so no body follows; written: the `written`
\* of PUT; crange, clen: the Content-Range and Content-Length headers; body:
\* the bytes of the body; rows: the rows of a JSON body.
Response(status, err, written, crange, clen, body, rows) ==
    [status |-> status, err |-> err, written |-> written, crange |-> crange,
     clen |-> clen, body |-> body, rows |-> rows]

Status(status) == Response(status, FALSE, 0, <<>>, 0, <<>>, {})

\* The outcome of a handler that changes the disk and the table: the status
\* it responds, the disk and the table it leaves, the number of ids it used
\* and, for PUT, the `written` it reports.
Outcome(status, d, t, used, written) ==
    [status |-> status, disk |-> d, db |-> t, used |-> used, written |-> written]

----------------------------------------------------------------------------
\* GET /files (filesRoutes.js)

\* parseInt(digits, 10) of a string of decimal digits.
RECURSIVE ParseInt(_)
ParseInt(ds) ==
    IF ds = <<>> THEN 0 ELSE 10 * ParseInt(SubSeq(ds, 1, Len(ds) - 1)) + ds[Len(ds)]

\* parseRange: [start, end] of the header bytes=<s>-<e>; an empty <s> is 0, an
\* empty <e> is fileSize - 1, and end is at most fileSize - 1.
parseRange(rangeHeader, fileSize) ==
    LET start == IF rangeHeader.s # <<>> THEN ParseInt(rangeHeader.s) ELSE 0
        end == IF rangeHeader.e # <<>> THEN ParseInt(rangeHeader.e) ELSE fileSize - 1
    IN <<start, Min(end, fileSize - 1)>>

\* createReadStream reading up to end, exclusive.
createReadStreamExclusive(d, filePath, start, end) ==
    IF end < 0 \/ start > end \/ d[filePath].kind # "file"
    THEN [err |-> TRUE, body |-> <<>>]
    ELSE [err |-> FALSE,
          body |-> SubSeq(d[filePath].data, start + 1,
                          Min(end, Len(d[filePath].data)))]

\* fs.createReadStream(filePath, {start, end}).pipe(res): the constructor
\* throws ERR_OUT_OF_RANGE when end < 0 or start > end, a directory cannot be
\* read; otherwise the bytes start..end of the file, as far as it reaches.
createReadStream(d, filePath, start, end) ==
    IF end < 0 \/ start > end \/ d[filePath].kind # "file"
    THEN [err |-> TRUE, body |-> <<>>]
    ELSE [err |-> FALSE,
          body |-> SubSeq(d[filePath].data, start + 1,
                          Min(end + 1, Len(d[filePath].data)))]

\* router.get("/"): the response to GET /files?relPath=p with header Range
\* (range.present) or without.
GetFile(d, p, range) ==
    LET filePath == Join(Strip(p))
        fileSize == StatSize(d, filePath)
    IN IF ~ExistsSync(d, filePath) THEN Status(404)
       ELSE IF range.present
       THEN LET se == parseRange(range, fileSize)
                rs == createReadStream(d, filePath, se[1], se[2])
            IN Response(206, rs.err, 0, <<se[1], se[2], fileSize>>,
                        se[2] - se[1] + 1, rs.body, {})
       ELSE Response(200, d[filePath].kind # "file", 0, <<>>, fileSize,
                     IF d[filePath].kind = "file" THEN d[filePath].data ELSE <<>>, {})

Get(p, range) ==
    /\ Served(Join(Strip(p)), ExistsSync(disk, Join(Strip(p))), NoEvent)
    /\ req' = Request("get", p, <<>>, 0, <<>>, range)
    /\ resp' = GetFile(disk, p, range)
    /\ UNCHANGED <<disk, db, nextId, allOk, attrs>>

----------------------------------------------------------------------------
\* PUT /files (filesRoutes.js)

\* fd.write(chunk, 0, chunk.length, position): the bytes of chunk laid over
\* data from position on; a gap between the end of data and position reads 0.
write(data, position, chunk) ==
    IF chunk = <<>> THEN data
    ELSE [i \in 1..Max(Len(data), position + Len(chunk)) |->
            IF i > position /\ i <= position + Len(chunk) THEN chunk[i - position]
            ELSE IF i <= Len(data) THEN data[i]
            ELSE 0]

\* The loop without currentOffset += chunk.length: every chunk is written at
\* the request's offset.
RECURSIVE WriteChunksNoAdvance(_, _, _)
WriteChunksNoAdvance(data, currentOffset, chunks) ==
    IF chunks = <<>> THEN [data |-> data, writtenTotal |-> 0]
    ELSE LET rest == WriteChunksNoAdvance(write(data, currentOffset, Head(chunks)),
                                          currentOffset, Tail(chunks))
         IN [data |-> rest.data,
             writtenTotal |-> Len(Head(chunks)) + rest.writtenTotal]

\* The loop with writtenTotal = chunk.length: only the last chunk is counted.
RECURSIVE WriteChunksCountLast(_, _, _)
WriteChunksCountLast(data, currentOffset, chunks) ==
    IF chunks = <<>> THEN [data |-> data, writtenTotal |-> 0]
    ELSE LET rest == WriteChunksCountLast(write(data, currentOffset, Head(chunks)),
                                          currentOffset + Len(Head(chunks)),
                                          Tail(chunks))
         IN [data |-> rest.data,
             writtenTotal |-> IF Tail(chunks) = <<>> THEN Len(Head(chunks))
                              ELSE rest.writtenTotal]

\* for await (const chunk of req) { fd.write(...); currentOffset += ...;
\* writtenTotal += ... }
RECURSIVE WriteChunks(_, _, _)
WriteChunks(data, currentOffset, chunks) ==
    IF chunks = <<>> THEN [data |-> data, writtenTotal |-> 0]
    ELSE LET rest == WriteChunks(write(data, currentOffset, Head(chunks)),
                                 currentOffset + Len(Head(chunks)), Tail(chunks))
         IN [data |-> rest.data,
             writtenTotal |-> Len(Head(chunks)) + rest.writtenTotal]

\* open with flag "r+" whatever the offset: an existing file is never
\* truncated.
OpenKeep(d, filePathAbs, offset) ==
    IF d[Dirname(filePathAbs)].kind # "dir" THEN [err |-> "ENOTDIR", data |-> <<>>]
    ELSE IF d[filePathAbs].kind = "dir" THEN [err |-> "EISDIR", data |-> <<>>]
    ELSE IF d[filePathAbs].kind = "none" THEN [err |-> "OK", data |-> <<>>]
    ELSE [err |-> "OK", data |-> d[filePathAbs].data]

\* open with flag "w+" whatever the offset: the file is always truncated.
OpenTruncate(d, filePathAbs, offset) ==
    IF d[Dirname(filePathAbs)].kind # "dir" THEN [err |-> "ENOTDIR", data |-> <<>>]
    ELSE IF d[filePathAbs].kind = "dir" THEN [err |-> "EISDIR", data |-> <<>>]
    ELSE [err |-> "OK", data |-> <<>>]

\* fs.promises.open(filePathAbs, flag), flag "w+" for offset 0 and "r+"
\* otherwise, opened again with "w+" on ENOENT: the errno and the content the
\* descriptor starts from.
Open(d, filePathAbs, offset) ==
    IF d[Dirname(filePathAbs)].kind # "dir" THEN [err |-> "ENOTDIR", data |-> <<>>]
    ELSE IF d[filePathAbs].kind = "dir" THEN [err |-> "EISDIR", data |-> <<>>]
    ELSE IF offset = 0 \/ d[filePathAbs].kind = "none" THEN [err |-> "OK", data |-> <<>>]
    ELSE [err |-> "OK", data |-> d[filePathAbs].data]

\* router.put("/")
PutFile(d, t, id, p, offset, chunks) ==
    LET relPath == Strip(p)
        filePathAbs == Join(relPath)
        parentPath == Dirname(relPath)
        fd == Open(d, filePathAbs, offset)
        w == WriteChunks(fd.data, offset, chunks)
        d2 == [d EXCEPT ![filePathAbs] = File(w.data)]
        u == updateFile(t, id, relPath, parentPath, Basename(filePathAbs), FALSE,
                        StatSize(d2, filePathAbs))
    IN IF ~ExistsSync(d, Dirname(filePathAbs)) THEN Outcome(400, d, t, 0, 0)
       ELSE IF fd.err # "OK" THEN Outcome(500, d, t, 0, 0)
       ELSE Outcome(200, d2, syncMetadataFromDisk(u.db, d2, parentPath), u.used,
                    w.writtenTotal)

\* The bytes of a body received as chunks.
RECURSIVE Body(_)
Body(chunks) == IF chunks = <<>> THEN <<>> ELSE Head(chunks) \o Body(Tail(chunks))

\* What fs.stat reports of a followed file after the handler wrote it at
\* second t: a file it created is new, flag 'w' truncates, and a write of no
\* byte under 'r+' leaves the times alone.
PutStat(s, existed, offset, written, t) ==
    IF ~existed THEN Stat(FileMode, t, t)
    ELSE IF offset = 0 \/ written > 0 THEN Stat(s.mode, s.atime, t)
    ELSE s

\* The attributes of the followed entries after the handler answered o: the
\* file's stat, and the mtime and permissions updateFile stores from it.
PutAttrs(o, a, offset) ==
    LET s == PutStat(stat[a], disk[a].kind = "file", offset, o.written, now)
    IN /\ stat' = IF a \in Followed /\ o.status = 200
                  THEN [stat EXCEPT ![a] = s] ELSE stat
       /\ meta' = IF a \in Followed /\ o.status = 200
                  THEN [meta EXCEPT ![a] = updateFileMeta(@, s.mtime, Permissions(s.mode))]
                  ELSE meta

\* The model follows versions up to MaxVersion.
VersionsFit(m) == \A a \in Followed : m[a].version <= MaxVersion

Put(p, offset, chunks) ==
    \E o \in {PutFile(disk, db, nextId, p, offset, chunks)} :
       /\ PutAttrs(o, Join(Strip(p)), offset)
       /\ Served(Join(Strip(p)), TRUE,
                 IF o.status = 200
                 THEN Event(IF disk[Join(Strip(p))].kind = "file" THEN "change" ELSE "add",
                            Join(Strip(p)), FALSE)
                 ELSE NoEvent)
       /\ VersionsFit(meta')
       /\ now' = now
       /\ offset + Len(Body(chunks)) <= MaxSize
       /\ nextId + o.used <= MaxId + 1
       /\ req' = Request("put", p, <<>>, offset, chunks, NoRange)
       /\ resp' = Response(o.status, FALSE, o.written, <<>>, 0, <<>>, {})
       /\ disk' = o.disk
       /\ db' = o.db
       /\ nextId' = nextId + o.used
       /\ allOk' = (allOk /\ o.status = 200)

----------------------------------------------------------------------------
\* DELETE /files (filesRoutes.js)

\* router.delete("/")
DeleteFile(d, t, p) ==
    LET relPath == Strip(p)
        filePathAbs == Join(relPath)
        d2 == Remove(d, filePathAbs)
    IN IF StatErr(d, filePathAbs) # "OK" THEN Outcome(404, d, t, 0, 0)
       ELSE Outcome(200, d2,
                    syncMetadataFromDisk(deleteFile(t, relPath), d2, Dirname(relPath)),
                    0, 0)

Delete(p) ==
    \E o \in {DeleteFile(disk, db, p)} :
       /\ req' = Request("delete", p, <<>>, 0, <<>>, NoRange)
       /\ resp' = Status(o.status)
       /\ disk' = o.disk
       /\ db' = o.db
       /\ allOk' = (allOk /\ o.status = 200)
       /\ stat' = Forget(stat, o.disk)
       /\ meta' = ForgetMeta(meta, o.db)
       /\ Served(Join(Strip(p)), TRUE,
                 IF o.status = 200 THEN Event("unlink", Join(Strip(p)), FALSE)
                 ELSE NoEvent)
       /\ UNCHANGED <<nextId, now>>

----------------------------------------------------------------------------
\* POST /mkdir (mkdirRoutes.js)

\* The handler without the fs.existsSync(dirPath) check: fs.mkdir of an
\* existing path throws EEXIST, which the handler answers with 500.
MakeDirUnchecked(d, t, id, relPath) ==
    LET dirPath == Join(relPath)
        parentPathAbs == Dirname(dirPath)
        d2 == [d EXCEPT ![dirPath] = Dir]
        c == createDirectory(t, id, relPath, Dirname(relPath), Basename(dirPath),
                             TRUE, 0)
    IN IF ~ExistsSync(d, parentPathAbs) /\ parentPathAbs # ROOT_DIR
       THEN Outcome(400, d, t, 0, 0)
       ELSE IF ExistsSync(d, dirPath) THEN Outcome(500, d, t, 0, 0)
       ELSE IF d[parentPathAbs].kind # "dir" THEN Outcome(500, d, t, 0, 0)
       ELSE IF c.err THEN Outcome(500, d2, t, 0, 0)
       ELSE Outcome(201, d2, c.db, c.used, 0)

\* router.post("/")
MakeDir(d, t, id, relPath) ==
    LET dirPath == Join(relPath)
        parentPathAbs == Dirname(dirPath)
        d2 == [d EXCEPT ![dirPath] = Dir]
        c == createDirectory(t, id, relPath, Dirname(relPath), Basename(dirPath),
                             TRUE, 0)
    IN IF ~ExistsSync(d, parentPathAbs) /\ parentPathAbs # ROOT_DIR
       THEN Outcome(400, d, t, 0, 0)
       ELSE IF ExistsSync(d, dirPath) THEN Outcome(409, d, t, 0, 0)
       ELSE IF d[parentPathAbs].kind # "dir" THEN Outcome(500, d, t, 0, 0)
       ELSE IF c.err THEN Outcome(500, d2, t, 0, 0)
       ELSE Outcome(201, d2, c.db, c.used, 0)

Mkdir(p) ==
    \E o \in {MakeDir(disk, db, nextId, p)} :
       /\ nextId + o.used <= MaxId + 1
       /\ req' = Request("mkdir", p, <<>>, 0, <<>>, NoRange)
       /\ resp' = Status(o.status)
       /\ disk' = o.disk
       /\ db' = o.db
       /\ nextId' = nextId + o.used
       /\ allOk' = (allOk /\ o.status = 201)
       /\ Join(p) \notin Followed
       /\ Quiet
       /\ UNCHANGED attrs

----------------------------------------------------------------------------
\* PATCH /files/rename (filesRoutes.js)

\* try { stat(newAbsPath); unlink(newAbsPath); f.deleteFile(newRelPath) }
\* catch: ENOENT is swallowed, any other errno is thrown on.  fs.unlink of a
\* directory fails with EISDIR.
ClearTarget(d, t, newRelPath) ==
    LET newAbsPath == Join(newRelPath)
    IN IF StatErr(d, newAbsPath) = "ENOENT" THEN [err |-> "OK", disk |-> d, db |-> t]
       ELSE IF StatErr(d, newAbsPath) # "OK"
       THEN [err |-> StatErr(d, newAbsPath), disk |-> d, db |-> t]
       ELSE IF d[newAbsPath].kind = "dir" THEN [err |-> "EISDIR", disk |-> d, db |-> t]
       ELSE [err |-> "OK", disk |-> Remove(d, newAbsPath),
             db |-> deleteFile(t, newRelPath)]

\* if (!fs.existsSync(newParentDir)): created for a restore, 404 otherwise.
EnsureParent(d, oldRelPath, newParentDir) ==
    IF ExistsSync(d, newParentDir) THEN [status |-> 200, disk |-> d]
    ELSE IF ~IsRestore(oldRelPath) THEN [status |-> 404, disk |-> d]
    ELSE IF StatErr(d, newParentDir) = "ENOTDIR" \/ newParentDir \notin DiskPaths
    THEN [status |-> 500, disk |-> d]
    ELSE [status |-> 200, disk |-> MkdirP(d, newParentDir)]

\* A query parameter the request does not carry: req.query.oldRelPath is
\* undefined.  (<<>> is the empty string.)
Missing == <<"undefined">>

\* router.patch("/rename"): path.startsWith of an undefined parameter throws
\* a TypeError, which has no code, before the test for empty parameters.
RenameFile(d, t, o, n) ==
    LET oldRelPath == Strip(o)
        newRelPath == Strip(n)
        oldAbsPath == Join(oldRelPath)
        newAbsPath == Join(newRelPath)
        c == ClearTarget(d, t, newRelPath)
        e == EnsureParent(c.disk, oldRelPath, Dirname(newAbsPath))
        errno == RenameErr(e.disk, oldAbsPath, newAbsPath)
        r == rename(c.db, oldRelPath, newRelPath)
    IN IF o = Missing \/ n = Missing THEN Outcome(500, d, t, 0, 0)
       ELSE IF oldRelPath = <<>> \/ newRelPath = <<>> THEN Outcome(400, d, t, 0, 0)
       ELSE IF c.err # "OK" THEN Outcome(500, c.disk, c.db, 0, 0)
       ELSE IF e.status # 200 THEN Outcome(e.status, e.disk, c.db, 0, 0)
       ELSE IF errno = "ENOENT" THEN Outcome(404, e.disk, c.db, 0, 0)
       ELSE IF errno # "OK" THEN Outcome(500, e.disk, c.db, 0, 0)
       ELSE IF r.err THEN Outcome(500, Move(e.disk, oldAbsPath, newAbsPath), c.db, 0, 0)
       ELSE Outcome(200, Move(e.disk, oldAbsPath, newAbsPath), r.db, 0, 0)

\* Every entry below old has room below new in the model's disk.
Fits(d, old, new) ==
    \A q \in DiskPaths :
        IsPrefix(old, q) /\ d[q].kind # "none" => Rebase(q, old, new) \in DiskPaths

\* The handler reaches fs.rename and fs.rename succeeds.
Renames(d, t, o, n) ==
    LET c == ClearTarget(d, t, Strip(n))
        e == EnsureParent(c.disk, Strip(o), Dirname(Join(Strip(n))))
    IN /\ o # Missing /\ n # Missing
       /\ Strip(o) # <<>> /\ Strip(n) # <<>>
       /\ c.err = "OK"
       /\ e.status = 200
       /\ RenameErr(e.disk, Join(Strip(o)), Join(Strip(n))) = "OK"

Rename(o, n) ==
    \E out \in {RenameFile(disk, db, o, n)} :
       /\ Renames(disk, db, o, n) => Fits(disk, Join(Strip(o)), Join(Strip(n)))
       /\ req' = Request("rename", o, n, 0, <<>>, NoRange)
       /\ resp' = Status(out.status)
       /\ disk' = out.disk
       /\ db' = out.db
       /\ allOk' = (allOk /\ out.status = 200)
       /\ Join(Strip(o)) \notin Followed /\ Join(Strip(n)) \notin Followed
       /\ Quiet
       /\ UNCHANGED <<nextId, attrs>>

----------------------------------------------------------------------------
\* PATCH /files/chmod, /files/truncate, /files/utimes (filesRoutes.js), for
\* the followed paths.

\* What a handler did to a followed path: its answer, the disk and the table,
\* the path's stat and the followed columns of its row.
AttrOutcome(status, d, t, used, s, m) ==
    [status |-> status, disk |-> d, db |-> t, used |-> used, stat |-> s, meta |-> m]

\* router.patch("/chmod") with updatePermissions left out: the row keeps its
\* permissions.
ChmodFileDiskOnly(d, t, s, m, relPath, perm) ==
    LET filePathAbs == Join(relPath)
        mode == ParseOct(perm)
    IN IF d[filePathAbs].kind = "none" \/ mode = NaN
       THEN AttrOutcome(500, d, t, 0, s, m)
       ELSE AttrOutcome(200, d, t, 0, Stat(mode % 4096, s.atime, s.mtime), m)

\* router.patch("/chmod"): fs.chmod(filePathAbs, parseInt(perm, 8)) throws
\* for a missing file and for NaN; updatePermissions stores perm as given.
ChmodFile(d, t, s, m, relPath, perm) ==
    LET filePathAbs == Join(relPath)
        mode == ParseOct(perm)
    IN IF d[filePathAbs].kind = "none" \/ mode = NaN
       THEN AttrOutcome(500, d, t, 0, s, m)
       ELSE AttrOutcome(200, d, t, 0, Stat(mode % 4096, s.atime, s.mtime),
                        updatePermissions(m, perm))

\* An attribute handler answered request r with o for followed path a, and
\* chokidar raised a change event for it or not.
AttrServed(r, o, a, raised) ==
    /\ req' = r
    /\ again' = (req = r)
    /\ resp' = Status(o.status)
    /\ disk' = o.disk
    /\ db' = o.db
    /\ nextId + o.used <= MaxId + 1
    /\ nextId' = nextId + o.used
    /\ stat' = [stat EXCEPT ![a] = o.stat]
    /\ meta' = [meta EXCEPT ![a] = o.meta]
    /\ VersionsFit(meta')
    /\ allOk' = (allOk /\ o.status = 200)
    /\ Bookkeeping(a, TRUE, IF raised THEN Event("change", a, FALSE) ELSE NoEvent)
    /\ now' = now

\* Whether chokidar raises a change event for a change of mode alone depends
\* on the file's times.
Chmod(p, perm) ==
    LET a == Join(Strip(p))
    IN /\ a \in Followed
       /\ \E o \in {ChmodFile(disk, db, stat[a], meta[a], Strip(p), perm)},
             raised \in BOOLEAN :
             /\ raised => o.status = 200
             /\ AttrServed(AttrRequest("chmod", p, <<perm>>), o, a, raised)

\* fs.truncate(path, len): the first len bytes, zeros past the end.
truncate(data, len) == [i \in 1..len |-> IF i <= Len(data) THEN data[i] ELSE 0]

\* parseInt(digits, 10) of a parameter, NaN when it is missing.
ParseDec(ds) == IF ds = <<>> THEN NaN ELSE ParseInt(ds)

\* router.patch("/truncate"): fs.truncate throws for a missing file, a
\* directory and NaN; updateFile then stores what fs.stat reports.  mtime is
\* the file's mtime after the truncation.
TruncateFile(d, t, id, s, m, relPath, size, mtime) ==
    LET filePathAbs == Join(relPath)
        len == ParseDec(size)
        d2 == [d EXCEPT ![filePathAbs] = File(truncate(@.data, len))]
        u == updateFile(t, id, relPath, Dirname(relPath), Basename(filePathAbs), FALSE,
                        StatSize(d2, filePathAbs))
    IN IF d[filePathAbs].kind # "file" \/ len = NaN
       THEN AttrOutcome(500, d, t, 0, s, m)
       ELSE AttrOutcome(200, d2, u.db, u.used, Stat(s.mode, s.atime, mtime),
                        updateFileMeta(m, mtime, Permissions(s.mode)))

\* A truncation to another size touches the mtime; whether one to the same
\* size does depends on the platform.  chokidar raises a change event when
\* the mtime was touched.
Truncate(p, size) ==
    LET a == Join(Strip(p))
    IN /\ a \in Followed
       /\ ParseDec(size) <= MaxSize
       /\ \E touched \in BOOLEAN :
             \E o \in {TruncateFile(disk, db, nextId, stat[a], meta[a], Strip(p), size,
                                    IF touched THEN now ELSE stat[a].mtime)} :
                /\ touched => o.status = 200
                /\ (o.status = 200 /\ ParseDec(size) # Len(disk[a].data)) => touched
                /\ AttrServed(AttrRequest("truncate", p, <<size>>), o, a, touched)

\* at ? new Date(at * 1000) : stats.atime, for at = parseInt(digits, 10) of a
\* given parameter and null for an omitted one: 0, NaN and null are falsy.
TimeOr(digits, current) ==
    IF digits = <<>> \/ ParseInt(digits) = 0 THEN current ELSE ParseInt(digits)

\* router.patch("/utimes"): fs.stat throws for a missing file; fs.utimes sets
\* the times; f.updateMtime is not a method of FileDAO, so the call throws a
\* TypeError and the handler answers 500 with the row as it was.
UtimesFile(d, t, s, m, relPath, atime, mtime) ==
    LET filePathAbs == Join(relPath)
        s2 == Stat(s.mode, TimeOr(atime, s.atime), TimeOr(mtime, s.mtime))
    IN IF d[filePathAbs].kind = "none" THEN AttrOutcome(500, d, t, 0, s, m)
       ELSE AttrOutcome(500, d, t, 0, s2, m)

\* chokidar raises a change event when the mtime changed.
Utimes(p, atime, mtime) ==
    LET a == Join(Strip(p))
    IN /\ a \in Followed
       /\ \E o \in {UtimesFile(disk, db, stat[a], meta[a], Strip(p), atime, mtime)} :
             /\ AttrServed(AttrRequest("utimes", p, <<atime, mtime>>), o, a,
                           o.stat.mtime # stat[a].mtime)

\* A second passes.
Tick ==
    /\ now < MaxTime
    /\ now' = now + 1
    /\ req' = Request("none", <<>>, <<>>, 0, <<>>, NoRange)
    /\ resp' = Status(0)
    /\ again' = FALSE
    /\ handled' = NoEvent
    /\ emitted' = <<>>
    /\ UNCHANGED <<disk, db, nextId, allOk, stat, meta, backendChanges, fsEvents,
                   pendingUnlink, unseen, task, pending, calls>>

----------------------------------------------------------------------------
\* Changes made in the storage directory by other processes, and the
\* watcher's handlers (index.js).

\* No request is served in the step.
Idle ==
    /\ req' = Request("none", <<>>, <<>>, 0, <<>>, NoRange)
    /\ resp' = Status(0)
    /\ again' = FALSE
    /\ UNCHANGED <<nextId, allOk, now, task, pending, calls>>

\* Another process creates or rewrites followed file a with the bytes data:
\* chokidar raises add for a new file and change for an existing one.
FsWrite(a, data) ==
    /\ disk[a].kind # "dir"
    /\ disk' = [disk EXCEPT ![a] = File(data)]
    /\ stat' = [stat EXCEPT ![a] = IF disk[a].kind = "file"
                                   THEN Stat(@.mode, @.atime, now)
                                   ELSE Stat(FileMode, now, now)]
    /\ fsEvents' = Raise(fsEvents,
                         Event(IF disk[a].kind = "file" THEN "change" ELSE "add", a, TRUE))
    /\ Len(fsEvents') <= MaxEvents
    /\ unseen' = unseen \cup {a}
    /\ handled' = NoEvent
    /\ emitted' = <<>>
    /\ Idle
    /\ UNCHANGED <<db, meta, backendChanges, pendingUnlink>>

\* Another process removes followed file a: chokidar raises unlink.
FsUnlink(a) ==
    /\ disk[a].kind = "file"
    /\ disk' = [disk EXCEPT ![a] = Absent]
    /\ stat' = [stat EXCEPT ![a] = NoStat]
    /\ fsEvents' = Raise(fsEvents, Event("unlink", a, TRUE))
    /\ Len(fsEvents') <= MaxEvents
    /\ unseen' = unseen \ {a}
    /\ handled' = NoEvent
    /\ emitted' = <<>>
    /\ Idle
    /\ UNCHANGED <<db, meta, backendChanges, pendingUnlink>>

\* Another process renames followed file a to the unused name b: chokidar
\* raises unlink for a and add for b.
FsRename(a, b) ==
    /\ disk[a].kind = "file"
    /\ disk[b].kind = "none"
    /\ disk' = [disk EXCEPT ![a] = Absent, ![b] = disk[a]]
    /\ stat' = [stat EXCEPT ![a] = NoStat, ![b] = stat[a]]
    /\ fsEvents' = Raise(Raise(fsEvents, Event("unlink", a, TRUE)), Event("add", b, TRUE))
    /\ Len(fsEvents') <= MaxEvents
    /\ unseen' = (unseen \ {a}) \cup {b}
    /\ handled' = NoEvent
    /\ emitted' = <<>>
    /\ Idle
    /\ UNCHANGED <<db, meta, backendChanges, pendingUnlink>>

\* The characters of a file name.  Of the names of the model only "x..y" has
\* more than one; the others stand for one character each.
Chars(name) == IF name = "x..y" THEN <<"x", ".", ".", "y">> ELSE <<name>>

\* The file name with the characters cs.
Name(cs) ==
    IF cs = <<>> THEN ""
    ELSE IF Len(cs) = 1 THEN cs[1]
    ELSE IF cs = <<"x", ".", ".", "y">> THEN "x..y"
    ELSE "?"

\* The characters of a path: its components with '/' between them.
RECURSIVE Text(_)
Text(path) ==
    IF path = <<>> THEN <<>>
    ELSE IF Len(path) = 1 THEN Chars(path[1])
    ELSE Chars(path[1]) \o <<"/">> \o Text(Tail(path))

\* The components of the path with the characters cs.
RECURSIVE Split(_, _)
Split(cs, component) ==
    IF cs = <<>> THEN <<Name(component)>>
    ELSE IF Head(cs) = "/" THEN <<Name(component)>> \o Split(Tail(cs), <<>>)
    ELSE Split(Tail(cs), Append(component, Head(cs)))

\* cs.startsWith(pattern)
StartsWith(cs, pattern) ==
    Len(cs) >= Len(pattern) /\ SubSeq(cs, 1, Len(pattern)) = pattern

\* cs.includes(pattern)
Includes(cs, pattern) ==
    \E i \in 1..Len(cs) : StartsWith(SubSeq(cs, i, Len(cs)), pattern)

\* cs.replace(pattern, replacement) with a string for pattern: the first
\* occurrence of pattern is replaced.
RECURSIVE Replace(_, _, _)
Replace(cs, pattern, replacement) ==
    IF cs = <<>> THEN <<>>
    ELSE IF StartsWith(cs, pattern)
    THEN replacement \o SubSeq(cs, Len(pattern) + 1, Len(cs))
    ELSE <<Head(cs)>> \o Replace(Tail(cs), pattern, replacement)

\* clean(absPath): path.relative(ROOT_DIR, absPath), then
\* relative.replace('\/g', '/'), whose pattern is the string "/g"; absPath
\* itself for ROOT_DIR; './' in front; '.' when the text includes '..'.
Clean(absPath) ==
    LET relative == Replace(Text(Tail(absPath)), <<"/", "g">>, <<"/">>)
        dotted == IF StartsWith(relative, <<".", "/">>) THEN relative
                  ELSE <<".", "/">> \o relative
    IN IF relative = <<>> \/ relative = <<".">> THEN absPath
       ELSE IF Includes(dotted, <<".", ".">>) THEN <<".">>
       ELSE Split(dotted, <<>>)

\* What the watcher did in a step: the table, the followed columns, the
\* next row id and the events it emitted.
Handled(t, m, used, out) == [db |-> t, meta |-> m, used |-> used, emitted |-> out]

\* handleFileUpdate(pathFile): f.updateFile with what fs.stat reports; a
\* failing stat is logged.
handleFileUpdate(d, t, id, st, m, pathFile) ==
    LET relPath == Clean(pathFile)
        u == updateFile(t, id, relPath, Dirname(relPath), Basename(pathFile),
                        d[pathFile].kind = "dir", StatSize(d, pathFile))
    IN IF d[pathFile].kind = "none" THEN Handled(t, m, 0, <<>>)
       ELSE Handled(u.db,
                    [m EXCEPT ![pathFile] =
                        updateFileMeta(@, st[pathFile].mtime, Permissions(st[pathFile].mode))],
                    u.used, <<>>)

\* handleRename(oldAbs, newAbs): f.rename(oldRel, newRel); an error of the
\* statement is logged, and a path without a row changes nothing.
handleRename(t, m, oldAbs, newAbs) ==
    LET r == rename(t, Clean(oldAbs), Clean(newAbs))
    IN IF r.err \/ getFileByPath(t, Clean(oldAbs)) = {} THEN Handled(t, m, 0, <<>>)
       ELSE Handled(r.db,
                    [m EXCEPT ![newAbs] = Meta(m[oldAbs].permissions, m[oldAbs].mtime,
                                               m[oldAbs].version + 1),
                              ![oldAbs] = NoMeta],
                    0, <<>>)

\* handleFileDeletion(pathFile): f.deleteFile(clean(pathFile))
handleFileDeletion(t, m, pathFile) ==
    Handled(deleteFile(t, Clean(pathFile)),
            ForgetMeta(m, deleteFile(t, Clean(pathFile))), 0, <<>>)

\* buildMetadataPayload(fPath) and io.emit: fs.stat of a missing file throws
\* and nothing is emitted.
Emit(h, d, st, op, fPath, oldAbs) ==
    IF d[fPath].kind = "none" THEN h
    ELSE [h EXCEPT !.emitted = <<FsChange(op, Clean(fPath),
                                          IF oldAbs = <<>> THEN <<>> ELSE Clean(oldAbs),
                                          buildMetadataPayload(d, st, fPath))>>]

\* watcher.on('add'), for an fPath that is not in backendChanges: an add
\* while the unlink of another path is pending is that path's rename.
OnAdd(d, t, id, st, m, unlinked, fPath) ==
    IF unlinked # <<>> /\ unlinked # fPath
    THEN Emit(handleRename(t, m, unlinked, fPath), d, st, "rename", fPath, unlinked)
    ELSE Emit(handleFileUpdate(d, t, id, st, m, fPath), d, st, "add", fPath, <<>>)

\* watcher.on('change'), for an fPath that is not in backendChanges.
OnChange(d, t, id, st, m, fPath) ==
    Emit(handleFileUpdate(d, t, id, st, m, fPath), d, st, "change", fPath, <<>>)

\* The watcher announces a file at absPath: the relPath of the event, which
\* is also the key of the row handleFileUpdate writes, is clean(absPath).
Announce(absPath) ==
    /\ handled' = Event("add", absPath, TRUE)
    /\ emitted' = <<FsChange("add", Clean(absPath), <<>>, Payload(0, 1, Permissions(FileMode)))>>
    /\ req' = Request("none", <<>>, <<>>, 0, <<>>, NoRange)
    /\ resp' = Status(0)
    /\ again' = FALSE
    /\ UNCHANGED <<disk, db, nextId, allOk, attrs, backendChanges, fsEvents,
                   pendingUnlink, unseen, task, pending, calls>>

\* The watcher handles its oldest event.  An event of a path in
\* backendChanges removes the path from the set and nothing more; an unlink
\* replaces the pending unlink and its timer.
Watch ==
    /\ fsEvents # <<>>
    /\ LET e == Head(fsEvents)
           swallowed == e.path \in backendChanges
           h == IF swallowed \/ e.ev = "unlink" THEN Handled(db, meta, 0, <<>>)
                ELSE IF e.ev = "add"
                THEN OnAdd(disk, db, nextId, stat, meta, pendingUnlink, e.path)
                ELSE OnChange(disk, db, nextId, stat, meta, e.path)
       IN /\ fsEvents' = Tail(fsEvents)
          /\ handled' = e
          /\ backendChanges' = backendChanges \ {e.path}
          /\ pendingUnlink' = IF swallowed THEN pendingUnlink
                              ELSE IF e.ev = "unlink" THEN e.path
                              ELSE IF e.ev = "add" /\ pendingUnlink # e.path THEN <<>>
                              ELSE pendingUnlink
          /\ db' = h.db
          /\ meta' = h.meta
          /\ VersionsFit(meta')
          /\ nextId + h.used <= MaxId + 1
          /\ nextId' = nextId + h.used
          /\ emitted' = h.emitted
          /\ unseen' = unseen \ {Join(ev.relPath) : ev \in {h.emitted[i] : i \in DOMAIN h.emitted}}
    /\ req' = Request("none", <<>>, <<>>, 0, <<>>, NoRange)
    /\ resp' = Status(0)
    /\ again' = FALSE
    /\ UNCHANGED <<disk, stat, allOk, now, task, pending, calls>>

\* The 200 ms timer of the pending unlink fires: the row is deleted and the
\* unlink is announced.
Timer ==
    /\ pendingUnlink # <<>>
    /\ LET h == handleFileDeletion(db, meta, pendingUnlink)
       IN /\ db' = h.db
          /\ meta' = h.meta
          /\ emitted' = <<FsChange("unlink", Clean(pendingUnlink), <<>>, UnlinkPayload)>>
    /\ handled' = Event("timer", pendingUnlink, FALSE)
    /\ pendingUnlink' = <<>>
    /\ req' = Request("none", <<>>, <<>>, 0, <<>>, NoRange)
    /\ resp' = Status(0)
    /\ again' = FALSE
    /\ UNCHANGED <<disk, stat, nextId, allOk, now, backendChanges, fsEvents, unseen,
                   task, pending, calls>>

----------------------------------------------------------------------------
\* The handlers of PUT /files, DELETE /files and POST /mkdir run statement by
\* statement: the work on disk, then each call of the DAO, which hands a
\* statement to the database and is awaited, then the response.

\* A statement of the DAO: db.run(query, [...], callback)
Stmt(kind, path, size) == [kind |-> kind, path |-> path, size |-> size]

\* The table after the database ran statement s, the ids it used, and whether
\* the statement failed.
Run(s, t, d, id) ==
    IF s.kind = "updateFile"
    THEN LET u == updateFile(t, id, s.path, Dirname(s.path), Basename(Join(s.path)),
                             FALSE, s.size)
         IN [db |-> u.db, used |-> u.used, err |-> FALSE]
    ELSE IF s.kind = "createDirectory"
    THEN createDirectory(t, id, s.path, Dirname(s.path), Basename(Join(s.path)), TRUE, 0)
    ELSE IF s.kind = "deleteFile"
    THEN [db |-> deleteFile(t, s.path), used |-> 0, err |-> FALSE]
    ELSE [db |-> syncMetadataFromDisk(t, d, s.path), used |-> 0, err |-> FALSE]

\* The calls of the DAO a handler makes after its work on disk left disk d.
Statements(op, relPath, d) ==
    IF op = "put"
    THEN <<Stmt("updateFile", relPath, StatSize(d, Join(relPath))),
           Stmt("syncMetadataFromDisk", Dirname(relPath), 0)>>
    ELSE IF op = "delete"
    THEN <<Stmt("deleteFile", relPath, 0),
           Stmt("syncMetadataFromDisk", Dirname(relPath), 0)>>
    ELSE <<Stmt("createDirectory", relPath, 0)>>

\* The handler as a whole, as the actions Put, Delete and Mkdir take it.
Whole(op, d, t, id, p, chunks) ==
    IF op = "put" THEN PutFile(d, t, id, p, 0, chunks)
    ELSE IF op = "delete" THEN DeleteFile(d, t, p)
    ELSE MakeDir(d, t, id, p)

\* A handler in steps: the calls it has yet to make, whether a statement
\* failed, the status it responded (0 before the response), and the table
\* that the handler taken as a whole leaves.
Task(op, path, stmts, err, status, expect) ==
    [op |-> op, path |-> path, stmts |-> stmts, err |-> err, status |-> status,
     expect |-> expect]
NoTask == Task("none", <<>>, <<>>, FALSE, 0, {})

\* A handler that does not await the DAO: it goes on whatever is pending.
AwaitNever(q) == TRUE

\* await f.updateFile(...): the handler goes on when the database has run
\* the statement and called back.
Await(q) == q = <<>>

\* The handler of a request starts: it does its work on disk, and responds
\* at once when that fails.
Start(op, p, chunks) ==
    /\ task.op = "none" \/ task.status # 0
    /\ pending = <<>>
    /\ \E o \in {Whole(op, disk, db, nextId, p, chunks)} :
          LET early == o.status \notin {200, 201} /\ o.disk = disk
          IN /\ nextId + o.used <= MaxId + 1
             /\ disk' = o.disk
             /\ task' = Task(op, Strip(p),
                             IF early THEN <<>> ELSE Statements(op, Strip(p), o.disk),
                             FALSE, IF early THEN o.status ELSE 0, o.db)
             /\ req' = Request(op, p, <<>>, 0, chunks, NoRange)
             /\ resp' = Status(IF early THEN o.status ELSE 0)
    /\ UNCHANGED <<db, nextId, allOk, attrs, watch, unseen, again, pending, calls>>

\* The handler makes its next call of the DAO.
Issue ==
    /\ task.status = 0 /\ task.op # "none"
    /\ task.stmts # <<>>
    /\ ~task.err
    /\ Await(pending)
    /\ pending' = Append(pending, Head(task.stmts))
    /\ task' = [task EXCEPT !.stmts = Tail(@)]
    /\ UNCHANGED <<disk, db, nextId, req, resp, allOk, attrs, watch, unseen, again, calls>>

\* The database runs the oldest statement and calls back.
Apply ==
    /\ pending # <<>>
    /\ \E r \in {Run(Head(pending), db, disk, nextId)} :
          /\ db' = r.db
          /\ nextId' = nextId + r.used
          /\ task' = [task EXCEPT !.err = @ \/ r.err]
    /\ pending' = Tail(pending)
    /\ UNCHANGED <<disk, req, resp, allOk, attrs, watch, unseen, again, calls>>

\* The handler responds: 500 from its catch when a statement failed.
Respond ==
    /\ task.status = 0 /\ task.op # "none"
    /\ task.err \/ task.stmts = <<>>
    /\ Await(pending)
    /\ \E status \in {IF task.err THEN 500 ELSE IF task.op = "mkdir" THEN 201 ELSE 200} :
          /\ task' = [task EXCEPT !.status = status]
          /\ req' = Request(task.op, task.path, <<>>, 0, <<>>, NoRange)
          /\ resp' = Status(status)
    /\ UNCHANGED <<disk, db, nextId, allOk, attrs, watch, unseen, again, pending, calls>>

----------------------------------------------------------------------------
\* The handlers of POST /mkdir, PUT /files and DELETE /files running
\* concurrently: a handler runs from one await to the next without
\* interruption, and the handlers of other requests run while it waits.

Callers == 1..MaxCalls

\* A handler: the request it serves, the await it waits at, the status it
\* responded, the stats.size it read, and whether the file its descriptor is
\* open on has been unlinked.
Call(op, path, pc, status, size, orphan) ==
    [op |-> op, path |-> path, pc |-> pc, status |-> status, size |-> size,
     orphan |-> orphan]
NoCall == Call("none", <<>>, "idle", 0, 0, FALSE)

\* The handler responds.
Done(c, status) == [c EXCEPT !.pc = "done", !.status = status]

\* Handler k went on to c2, responding when that is its end; the other
\* handlers wait.
Continue(k, c2) ==
    /\ calls' = [calls EXCEPT ![k] = c2]
    /\ req' = IF c2.pc = "done" THEN Request(c2.op, c2.path, <<>>, 0, <<>>, NoRange) ELSE req
    /\ resp' = IF c2.pc = "done" THEN Status(c2.status) ELSE resp
    /\ UNCHANGED <<allOk, attrs, watch, unseen, again, task, pending>>

\* A request arrives and its handler runs up to its first await: mkdir
\* checks the parent and the directory with fs.existsSync, PUT the parent.
Begin(k, op, relPath) ==
    LET a == Join(relPath)
        c == Call(op, relPath, "idle", 0, 0, FALSE)
    IN /\ calls[k].pc = "idle"
       /\ Continue(k, IF op = "mkdir"
                      THEN IF ~ExistsSync(disk, Dirname(a)) /\ Dirname(a) # ROOT_DIR
                           THEN Done(c, 400)
                           ELSE IF ExistsSync(disk, a) THEN Done(c, 409)
                           ELSE [c EXCEPT !.pc = "mkdir"]
                      ELSE IF op = "put"
                      THEN IF ~ExistsSync(disk, Dirname(a)) THEN Done(c, 400)
                           ELSE [c EXCEPT !.pc = "open"]
                      ELSE [c EXCEPT !.pc = "stat"])
       /\ UNCHANGED <<disk, db, nextId>>

\* await fs.promises.mkdir(dirPath): EEXIST when the entry exists by now.
AwaitMkdir(k) ==
    LET c == calls[k]
        a == Join(c.path)
        ok == disk[a].kind = "none" /\ disk[Dirname(a)].kind = "dir"
    IN /\ c.pc = "mkdir"
       /\ disk' = IF ok THEN [disk EXCEPT ![a] = Dir] ELSE disk
       /\ Continue(k, IF ok THEN [c EXCEPT !.pc = "createDirectory"] ELSE Done(c, 500))
       /\ UNCHANGED <<db, nextId>>

\* await f.createDirectory({...}), then res.status(201)
AwaitCreateDirectory(k) ==
    LET c == calls[k]
        r == createDirectory(db, nextId, c.path, Dirname(c.path), Basename(Join(c.path)),
                             TRUE, 0)
    IN /\ c.pc = "createDirectory"
       /\ nextId + r.used <= MaxId + 1
       /\ db' = r.db
       /\ nextId' = nextId + r.used
       /\ Continue(k, Done(c, IF r.err THEN 500 ELSE 201))
       /\ UNCHANGED disk

\* fd = await fs.promises.open(filePathAbs, "w+")
AwaitOpen(k) ==
    LET c == calls[k]
        a == Join(c.path)
        fd == Open(disk, a, 0)
    IN /\ c.pc = "open"
       /\ disk' = IF fd.err = "OK" THEN [disk EXCEPT ![a] = File(fd.data)] ELSE disk
       /\ Continue(k, IF fd.err = "OK" THEN [c EXCEPT !.pc = "write"] ELSE Done(c, 500))
       /\ UNCHANGED <<db, nextId>>

\* await fd.write(chunk, 0, chunk.length, currentOffset): the bytes go to the
\* file the descriptor is open on, which has no name once it was unlinked.
AwaitWrite(k, chunk) ==
    LET c == calls[k]
        a == Join(c.path)
    IN /\ c.pc = "write"
       /\ disk' = IF c.orphan \/ disk[a].kind # "file" THEN disk
                  ELSE [disk EXCEPT ![a] = File(WriteChunks(@.data, 0, <<chunk>>).data)]
       /\ Continue(k, [c EXCEPT !.pc = "close"])
       /\ UNCHANGED <<db, nextId>>

\* await fd.close(); const stats = await fs.promises.stat(filePathAbs)
AwaitStat(k) ==
    LET c == calls[k]
        a == Join(c.path)
    IN /\ c.pc \in {"close", "stat"}
       /\ Continue(k, IF StatErr(disk, a) # "OK"
                      THEN Done(c, IF c.op = "put" THEN 500 ELSE 404)
                      ELSE [c EXCEPT !.pc = IF c.op = "put" THEN "updateFile" ELSE "unlink",
                                     !.size = StatSize(disk, a)])
       /\ UNCHANGED <<disk, db, nextId>>

\* await f.updateFile({..., size: stats.size, ...})
AwaitUpdateFile(k) ==
    LET c == calls[k]
        u == updateFile(db, nextId, c.path, Dirname(c.path), Basename(Join(c.path)),
                        FALSE, c.size)
    IN /\ c.pc = "updateFile"
       /\ nextId + u.used <= MaxId + 1
       /\ db' = u.db
       /\ nextId' = nextId + u.used
       /\ Continue(k, [c EXCEPT !.pc = "syncMetadataFromDisk"])
       /\ UNCHANGED disk

\* await fs.promises.unlink(filePathAbs), or fs.promises.rm of a directory:
\* ENOENT when the file is gone by now.
AwaitUnlink(k) ==
    LET c == calls[k]
        a == Join(c.path)
        ok == StatErr(disk, a) = "OK"
    IN /\ c.pc = "unlink"
       /\ disk' = IF ok THEN Remove(disk, a) ELSE disk
       /\ calls' = [j \in Callers |->
                      IF j = k
                      THEN IF ok THEN [c EXCEPT !.pc = "deleteFile"] ELSE Done(c, 500)
                      ELSE IF ok /\ calls[j].path = c.path /\ calls[j].pc = "write"
                      THEN [calls[j] EXCEPT !.orphan = TRUE]
                      ELSE calls[j]]
       /\ req' = IF ok THEN req ELSE Request(c.op, c.path, <<>>, 0, <<>>, NoRange)
       /\ resp' = IF ok THEN resp ELSE Status(500)
       /\ UNCHANGED <<db, nextId, allOk, attrs, watch, unseen, again, task, pending>>

\* await f.deleteFile(relPath)
AwaitDeleteFile(k) ==
    LET c == calls[k]
    IN /\ c.pc = "deleteFile"
       /\ db' = deleteFile(db, c.path)
       /\ Continue(k, [c EXCEPT !.pc = "syncMetadataFromDisk"])
       /\ UNCHANGED <<disk, nextId>>

\* await f.syncMetadataFromDisk(parentPath), then res.status(200)
AwaitSyncMetadata(k) ==
    LET c == calls[k]
    IN /\ c.pc = "syncMetadataFromDisk"
       /\ db' = syncMetadataFromDisk(db, disk, Dirname(c.path))
       /\ Continue(k, Done(c, 200))
       /\ UNCHANGED <<disk, nextId>>

----------------------------------------------------------------------------
\* GET /list (listRoutes.js)

\* router.get('/'): the rows whose parent is relPath, '.' for an empty relPath.
ListDir(t, relPath) == getFilesByDirectory(t, IF relPath = <<>> THEN <<".">> ELSE relPath)

List(p) ==
    /\ req' = Request("list", p, <<>>, 0, <<>>, NoRange)
    /\ resp' = Response(200, FALSE, 0, <<>>, 0, <<>>, ListDir(db, p))
    /\ UNCHANGED <<disk, db, nextId, allOk, attrs>>
    /\ Quiet

----------------------------------------------------------------------------
\* GET /list/updatedMetadata (listRoutes.js)

\* A JavaScript value as a handler tests it: null, or an object.
JsNull == [js |-> "null", value |-> <<>>]
JsObject(o) == [js |-> "object", value |-> o]

\* !v: true of null, false of every object.
Not(v) == v.js = "null"

\* What the promise of getFileByPath resolves to: the row of the path, or the
\* object { error: 'Directory not found.' } without one.
getFileByPathResolved(t, path) ==
    IF getFileByPath(t, path) = {}
    THEN JsObject([error |-> "Directory not found."])
    ELSE JsObject(CHOOSE r \in t : r.path = path)

\* if (!path || path === "./storage" || path == "") path = "."
MetadataPath(relPath) ==
    IF relPath = <<>> \/ relPath = <<".", "storage">> THEN <<".">> ELSE relPath

\* router.get("/updatedMetadata"): 404 when !f, the JSON of f otherwise.
GetUpdatedMetadata(t, relPath) ==
    LET f == getFileByPathResolved(t, MetadataPath(relPath))
    IN IF Not(f) THEN Status(404)
       ELSE Response(200, FALSE, 0, <<>>, 0, <<>>, {f.value})

UpdatedMetadata(p) ==
    /\ req' = Request("updatedMetadata", p, <<>>, 0, <<>>, NoRange)
    /\ resp' = GetUpdatedMetadata(db, p)
    /\ UNCHANGED <<disk, db, nextId, allOk, attrs>>
    /\ Quiet

----------------------------------------------------------------------------
\* The service: a fresh storage directory and an empty table, then requests
\* served one at a time.

Init ==
    /\ disk = [q \in DiskPaths |-> IF q = ROOT_DIR THEN Dir ELSE Absent]
    /\ db = {}
    /\ nextId = 1
    /\ req = Request("none", <<>>, <<>>, 0, <<>>, NoRange)
    /\ resp = Status(0)
    /\ allOk = TRUE
    /\ now = 1
    /\ stat = [a \in Followed |-> NoStat]
    /\ meta = [a \in Followed |-> NoMeta]
    /\ backendChanges = {}
    /\ fsEvents = <<>>
    /\ pendingUnlink = <<>>
    /\ handled = NoEvent
    /\ emitted = <<>>
    /\ unseen = {}
    /\ again = FALSE
    /\ task = NoTask
    /\ pending = <<>>
    /\ calls = [k \in Callers |-> NoCall]

\* The paths requests name.
Paths == TreePaths

\* The requests that change the tree, on every path and with one-byte bodies at
\* offset 0, served one at a time.
Next ==
    \/ \E p \in Paths, x \in Bytes : Put(p, 0, <<(<<x>>)>>)
    \/ \E p \in Paths : Delete(p)
    \/ \E p \in Paths : Mkdir(p)
    \/ \E o \in Paths, n \in Paths : Rename(o, n)

Spec == Init /\ [][Next]_vars

\* Handlers that run statement by statement, one at a time, and the
\* requests that read the table, served at any moment.
StepPaths == {<<".", "a">>, <<".", "a", "c">>}

NextSteps ==
    \/ \E p \in StepPaths, x \in Bytes : Start("put", p, <<(<<x>>)>>)
    \/ \E p \in StepPaths : Start("delete", p, <<>>)
    \/ \E p \in StepPaths : Start("mkdir", p, <<>>)
    \/ Issue
    \/ Apply
    \/ Respond
    \/ \E p \in {<<".">>, <<".", "a">>} : List(p)
    \/ \E p \in StepPaths : UpdatedMetadata(p)

SpecSteps == Init /\ [][NextSteps]_vars

\* The watcher announcing files anywhere below the storage root: names of
\* one character, one of them g, and a name with two dots in it.
CleanNames == {"a", "g", "v", "w", "x..y"}

RECURSIVE Below(_)
Below(depth) ==
    IF depth = 0 THEN {ROOT_DIR}
    ELSE Below(depth - 1)
         \cup {Append(q, n) : q \in {x \in Below(depth - 1) : Len(x) = depth}, n \in CleanNames}

NextClean == \E absPath \in Below(MaxDepth) : Announce(absPath)

SpecClean == Init /\ [][NextClean]_vars

\* Requests that change the attributes of followed file ./w, and the
\* watcher handling the events they raise.
FileW == <<".", "w">>
Perms == {<<6, 0, 0>>, <<7, 5, 5>>, <<8>>}
Sizes == {<<>>, <<0>>, <<2>>}
Times == {<<>>, <<0>>, <<2>>}

NextAttr ==
    \/ Put(FileW, 0, <<(<<1>>)>>)
    \/ \E perm \in Perms : Chmod(FileW, perm)
    \/ \E size \in Sizes : Truncate(FileW, size)
    \/ \E atime \in Times, mtime \in Times : Utimes(FileW, atime, mtime)
    \/ Watch
    \/ Tick

SpecAttr == Init /\ [][NextAttr]_vars

\* Requests for followed file ./w, changes of the followed files by other
\* processes, and the watcher.
NextWatch ==
    \/ Get(FileW, NoRange)
    \/ Put(FileW, 0, <<(<<1>>)>>)
    \/ Chmod(FileW, <<6, 0, 0>>)
    \/ \E a \in Followed : FsWrite(a, <<2>>)
    \/ \E a \in Followed : FsUnlink(a)
    \/ Watch
    \/ Timer

SpecWatch == Init /\ [][NextWatch]_vars

----------------------------------------------------------------------------
\* The bytes of one file: every body, offset and range up to MaxSize on one
\* path.

BytePath == <<".", "a">>

\* The bodies of at most n bytes.
Bodies(n) == UNION {[1..k -> Bytes] : k \in 0..n}

\* A body arrives in one chunk or, byte by byte, in two.
ChunkLists ==
    {<<>>} \cup {<<b>> : b \in Bodies(MaxSize) \ {<<>>}}
           \cup {<<(<<x>>), (<<y>>)>> : x \in Bytes, y \in Bytes}

\* The digits of a bound of a Range header: none, one digit, or "10".
RangeDigits == {<<>>, <<1, 0>>} \cup {<<n>> : n \in 0..MaxSize}

Ranges == {NoRange} \cup {Range(s, e) : s \in RangeDigits, e \in RangeDigits}

NextBytes ==
    \/ \E r \in Ranges : Get(BytePath, r)
    \/ \E offset \in 0..MaxSize, chunks \in ChunkLists : Put(BytePath, offset, chunks)
    \/ Mkdir(BytePath)
    \/ List(ROOT_DIR)
    \/ \E p \in {BytePath, <<>>} : UpdatedMetadata(p)

SpecBytes == Init /\ [][NextBytes]_vars

----------------------------------------------------------------------------
\* Restores from the trash: renames whose destination parent may be missing.

\* "/.Trash-1000/c", a file of the trash directory.
TrashFile == <<TrashDir, "c">>

\* A file kept outside the trash, the directory renames lead into, and the
\* destinations in it and one level further down.
Kept == <<".", "b">>
Home == <<".", "a">>
Restored == <<".", "a", "c">>
Deeper == <<".", "a", "c", "d">>

NextRestore ==
    \/ Mkdir(<<TrashDir>>)
    \/ \E p \in {TrashFile, Kept, Home}, x \in Bytes : Put(p, 0, <<(<<x>>)>>)
    \/ Mkdir(Home)
    \/ Delete(Home)
    \/ \E o \in {TrashFile, Kept} : Rename(o, Restored)
    \/ Rename(Kept, Deeper)
    \/ \E o \in {Missing, <<>>, Kept}, n \in {Missing, <<>>, Kept} : Rename(o, n)

SpecRestore == Init /\ [][NextRestore]_vars

----------------------------------------------------------------------------
\* Properties of PUT /files and GET /files, under SpecBytes.

\* The file a request is about, before and after it.
Target(r) == Join(Strip(r.path))

\* The request just served is a PUT that responded 200.
PutOk(r, s) == r.op = "put" /\ s.status = 200

\* C2: a PUT at offset 0 leaves exactly the body in the file; a PUT at an
\* offset N > 0 on an existing file puts the body at bytes [N, N+|B|) and
\* leaves every other byte the file had as it was.
C2_PutOverlay ==
    [][PutOk(req', resp') =>
         LET B == Body(req'.chunks)
             N == req'.offset
             old == disk[Target(req')]
             new == disk'[Target(req')]
         IN /\ new.kind = "file"
            /\ N = 0 => new.data = B
            /\ (N > 0 /\ old.kind = "file") =>
                 /\ Len(new.data) >= Len(old.data)
                 /\ \A i \in 1..Len(B) : new.data[N + i] = B[i]
                 /\ \A i \in 1..Len(old.data) :
                       (i <= N \/ i > N + Len(B)) => new.data[i] = old.data[i]]_vars

\* A PUT of one byte at offset 1 into a file of three bytes has succeeded:
\* there is a byte before and a byte after the range written.
C2_Witness ==
    /\ PutOk(req, resp)
    /\ req.offset = 1
    /\ Len(Body(req.chunks)) = 1
    /\ Len(disk[Target(req)].data) = 3
    /\ disk[Target(req)].data[1] \in Bytes
    /\ disk[Target(req)].data[3] \in Bytes

\* C3: after a PUT of a non-empty body at offset off succeeded, the next
\* request, a GET of the same path with Range bytes=off-(off+len-1), returns
\* exactly the body.
C3_ReadBack ==
    [][(/\ PutOk(req, resp)
        /\ Body(req.chunks) # <<>>
        /\ req'.op = "get"
        /\ req'.path = req.path
        /\ req'.range = Range(<<req.offset>>,
                              <<req.offset + Len(Body(req.chunks)) - 1>>))
       => /\ resp'.status = 206
          /\ ~resp'.err
          /\ resp'.body = Body(req.chunks)]_vars

\* A ranged GET from offset 1 has returned two bytes, the second of which is
\* the last byte of the file.
C3_Witness ==
    /\ req.op = "get"
    /\ req.range = Range(<<1>>, <<2>>)
    /\ resp.status = 206
    /\ Len(resp.body) = 2
    /\ Len(disk[Target(req)].data) = 3

\* C4, as stated: after a PUT of L bytes at offset N > 0 to a file of size S
\* succeeded, the file has size max(S, N+L) and the row of its path carries
\* that size.
C4_SizeAfterPutAnyBody ==
    [][(PutOk(req', resp') /\ req'.offset > 0 /\ disk[Target(req')].kind = "file") =>
         LET S == Len(disk[Target(req')].data)
             size == Max(S, req'.offset + Len(Body(req'.chunks)))
         IN /\ Len(disk'[Target(req')].data) = size
            /\ \E r \in getFileByPath(db', Strip(req'.path)) : r.size = size]_vars

\* C4, amended: after a PUT of L bytes at offset N > 0 to a file of size S
\* succeeded, the file has size max(S, N+L) when L >= 1 and size S when
\* L = 0, and the row of its path, as /list and /list/updatedMetadata serve
\* it, carries that size.
C4_SizeAfterPut ==
    [][(PutOk(req', resp') /\ req'.offset > 0 /\ disk[Target(req')].kind = "file") =>
         LET S == Len(disk[Target(req')].data)
             L == Len(Body(req'.chunks))
             size == IF L >= 1 THEN Max(S, req'.offset + L) ELSE S
         IN /\ Len(disk'[Target(req')].data) = size
            /\ \E r \in getFileByPath(db', Strip(req'.path)) : r.size = size
            /\ \E r \in ListDir(db', Dirname(Strip(req'.path))) :
                  r.path = Strip(req'.path) /\ r.size = size]_vars

\* A PUT at offset 2 has grown a file that already held a byte to three bytes.
C4_Witness ==
    /\ PutOk(req, resp)
    /\ req.offset = 2
    /\ Len(Body(req.chunks)) = 1
    /\ disk[Target(req)].data[1] \in Bytes
    /\ Len(disk[Target(req)].data) = 3
    /\ \E r \in getFileByPath(db, Strip(req.path)) : r.size = 3

\* The request just served is a GET with header Range: bytes=S-E on a file.
RangeGet(S, E) ==
    /\ req.op = "get"
    /\ req.range = Range(<<S>>, <<E>>)
    /\ disk[Target(req)].kind = "file"

\* C8: a GET with Range bytes=S-E, 0 <= S <= E < TOTAL, on a file of size
\* TOTAL responds 206 with Content-Range bytes S-E/TOTAL, Content-Length
\* E-S+1 and the bytes S..E of the file.
C8_RangeResponse ==
    \A S \in 0..MaxSize, E \in 0..MaxSize :
        LET data == disk[Target(req)].data
        IN (RangeGet(S, E) /\ S <= E /\ E < Len(data)) =>
             /\ resp.status = 206
             /\ ~resp.err
             /\ resp.crange = <<S, E, Len(data)>>
             /\ resp.clen = E - S + 1
             /\ resp.body = [i \in 1..(E - S + 1) |-> data[S + i]]

\* A GET of bytes 0-1 of a file of three bytes has been served.
C8_Witness ==
    /\ RangeGet(0, 1)
    /\ Len(disk[Target(req)].data) = 3
    /\ resp.status = 206

\* C9: on a ranged GET of a file of size `size`, an end >= size is clamped
\* to size - 1, and a start >= size returns an empty body without an error.
C9_ClampedRange ==
    \A S \in 0..MaxSize, E \in 0..MaxSize :
        LET size == Len(disk[Target(req)].data)
        IN RangeGet(S, E) =>
             /\ E >= size => resp.crange[2] = size - 1
             /\ S >= size => (resp.status < 500 /\ ~resp.err /\ resp.body = <<>>)

\* C10, as stated: a PUT with an empty body on a path that is no directory
\* succeeds and leaves the file's existence and content as they were.
C10_EmptyPutNoOp ==
    [][(req'.op = "put" /\ Body(req'.chunks) = <<>>
        /\ disk[Target(req')].kind # "dir") =>
         /\ resp'.status = 200
         /\ disk'[Target(req')] = disk[Target(req')]]_vars

\* C10, amended: a PUT with an empty body on a path that is no directory
\* succeeds and reports 0 bytes written; at an offset > 0 on an existing file
\* it leaves the content as it was, and at offset 0 or on a missing file it
\* leaves an empty file.
C10_EmptyPut ==
    [][(req'.op = "put" /\ Body(req'.chunks) = <<>>
        /\ disk[Target(req')].kind # "dir") =>
         /\ resp'.status = 200
         /\ resp'.written = 0
         /\ IF req'.offset > 0 /\ disk[Target(req')].kind = "file"
            THEN disk'[Target(req')] = disk[Target(req')]
            ELSE disk'[Target(req')] = File(<<>>)]_vars

\* A PUT with an empty body at an offset > 0 has been served on a file that
\* holds bytes.
C10_Witness ==
    /\ PutOk(req, resp)
    /\ Body(req.chunks) = <<>>
    /\ req.offset > 0
    /\ Len(disk[Target(req)].data) >= 1

----------------------------------------------------------------------------
\* Properties of the tree and the table, under Spec.

\* The entries of directory P on disk.
Children(d, P) == {q \in DiskPaths : q # P /\ Dirname(q) = P /\ d[q].kind # "none"}

\* The rows list one row per entry of directory P on disk, of its name and
\* kind, and no other row.
Listed(d, rows, P) ==
    /\ \A q \in Children(d, P) :
          Cardinality({r \in rows : r.name = Basename(q)
                                    /\ r.is_dir = (d[q].kind = "dir")}) = 1
    /\ \A r \in rows : \E q \in Children(d, P) : r.name = Basename(q)
    /\ Cardinality(rows) = Cardinality(Children(d, P))

\* C1: after any sequence of successful mkdir, PUT, DELETE and rename
\* requests from an empty storage directory and an empty table, GET /list of
\* every directory P on disk returns exactly one row per entry of P, with the
\* entry's name and kind, and no row for an entry that does not exist.
C1_ListMatchesDisk ==
    allOk => \A P \in DiskPaths :
                disk[P].kind = "dir" => Listed(disk, ListDir(db, P), P)

\* The request served by this step is a rename A -> B that responded 200.
RenameOk(r, s) == r.op = "rename" /\ s.status = 200

\* What was at and below A in d is at and below B in e.
Carried(d, e, A, B) ==
    \A q \in DiskPaths : IsPrefix(A, q) /\ Rebase(q, A, B) \in DiskPaths
                            => e[Rebase(q, A, B)] = d[q]

\* C5: after a rename from a path A that has a row to B succeeded, no row
\* has path A, the row with path B has the id the row of A had, name
\* basename(B) and parent dirname(B), and on disk A is gone and B holds what
\* was at A.
C5_RenameRekeys ==
    [][(RenameOk(req', resp') /\ getFileByPath(db, Strip(req'.path)) # {}) =>
         LET A == Strip(req'.path)
             B == Strip(req'.path2)
         IN /\ getFileByPath(db', A) = {}
            /\ \E r \in getFileByPath(db', B) :
                  /\ r.id = getIdByPath(db, A)
                  /\ r.name = Basename(B)
                  /\ r.parent = Dirname(B)
            /\ Cardinality(getFileByPath(db', B)) = 1
            /\ disk'[Join(A)].kind = "none"
            /\ disk[Join(A)].kind # "none"
            /\ Carried(disk, disk', Join(A), Join(B))]_vars

\* C6: a rename from an existing A to a B that exists, file or directory,
\* in an existing directory, A and B not inside one another, responds 200;
\* afterwards B holds what was at A, and what B held and the row B had are
\* gone.
C6_RenameOverwrites ==
    [][LET A == Strip(req'.path)
           B == Strip(req'.path2)
       IN (/\ req'.op = "rename"
           /\ ExistsSync(disk, Join(A))
           /\ ExistsSync(disk, Join(B))
           /\ ~IsPrefix(Join(A), Join(B))
           /\ ~IsPrefix(Join(B), Join(A)))
          => /\ resp'.status = 200
             /\ Carried(disk, disk', Join(A), Join(B))
             /\ \A r \in getFileByPath(db, B) : \A r2 \in db' : r2.id # r.id]_vars

\* C7: after a DELETE of a directory D succeeded, D and everything below it
\* is gone from disk and no row has path D or a path below D.
C7_DeleteRemovesRows ==
    [][(/\ req'.op = "delete"
        /\ resp'.status = 200
        /\ disk[Target(req')].kind = "dir")
       => /\ \A q \in DiskPaths : IsPrefix(Target(req'), q) => disk'[q].kind = "none"
          /\ \A r \in db' : ~IsPrefix(Strip(req'.path), r.path)]_vars

----------------------------------------------------------------------------
\* Properties of GET /list/updatedMetadata and POST /mkdir, under SpecBytes.

\* C11: GET /list/updatedMetadata?relPath=P responds 404 when the table has
\* no row for P, and responds with that single row when it has one.
C11_UpdatedMetadata ==
    req.op = "updatedMetadata" =>
        LET rows == getFileByPath(db, MetadataPath(req.path))
        IN IF rows = {} THEN resp.status = 404
           ELSE resp.status = 200 /\ resp.rows = rows

C20_Written ==
    [][PutOk(req', resp') =>
         LET B == Body(req'.chunks)
             N == req'.offset
             new == disk'[Target(req')]
         IN /\ resp'.written = Len(B)
            /\ new.kind = "file"
            /\ B # <<>> => Len(new.data) >= N + Len(B)
            /\ \A i \in 1..Len(B) : new.data[N + i] = B[i]]_vars

\* A PUT of two one-byte chunks at offset 1 has reported written = 2.
C20_Witness ==
    /\ PutOk(req, resp)
    /\ Len(req.chunks) = 2
    /\ req.offset = 1
    /\ resp.written = 2
    /\ SubSeq(disk[Target(req)].data, 2, 3) = Body(req.chunks)

----------------------------------------------------------------------------
\* Properties of PATCH /files/rename with a missing parent, under SpecRestore.

\* C19: a rename whose destination parent directory does not exist creates
\* the missing parent and proceeds when oldRelPath starts with "/.Trash-"
\* (200 and the file moved when the source exists, 404 when it does not);
\* otherwise it responds 404 and changes neither the disk nor the table.
C19_MissingParent ==
    [][LET A == Strip(req'.path)
           B == Strip(req'.path2)
           parent == Dirname(Join(B))
       IN (req'.op = "rename" /\ ~ExistsSync(disk, parent)) =>
            IF IsRestore(A)
            THEN /\ disk'[parent].kind = "dir"
                 /\ IF ExistsSync(disk, Join(A))
                    THEN /\ resp'.status = 200
                         /\ disk'[Join(B)] = disk[Join(A)]
                         /\ disk'[Join(A)].kind = "none"
                    ELSE resp'.status = 404
            ELSE resp'.status = 404 /\ disk' = disk /\ db' = db]_vars

----------------------------------------------------------------------------
\* C12: PATCH /files/utimes on an existing file responds with success, sets
\* the file's atime and mtime to the given values in seconds (0 included),
\* leaves an omitted one as it was, and stores the resulting mtime in the
\* path's row.
C12_Utimes ==
    [][(req'.op = "utimes" /\ disk[Join(Strip(req'.path))].kind = "file")
       => LET a == Join(Strip(req'.path))
              atime == req'.args[1]
              mtime == req'.args[2]
          IN /\ resp'.status = 200
             /\ stat'[a].atime = IF atime = <<>> THEN stat[a].atime ELSE ParseInt(atime)
             /\ stat'[a].mtime = IF mtime = <<>> THEN stat[a].mtime ELSE ParseInt(mtime)
             /\ meta'[a].version > 0 => meta'[a].mtime = stat'[a].mtime]_vars

\* C17: after a PATCH /files/chmod with perm=OCT that responds 200 the file
\* on disk has mode OCT and the path's row carries permissions OCT; after a
\* PATCH /files/truncate with size=N that responds 200 the file on disk has
\* N bytes and the path's row carries size N.
C17_AttrStored ==
    [][/\ (req'.op = "chmod" /\ resp'.status = 200)
          => LET a == Join(Strip(req'.path))
                 perm == req'.args[1]
             IN /\ stat'[a].mode = OctalValue(perm)
                /\ getFileByPath(db', Strip(req'.path)) # {}
                /\ meta'[a].permissions = perm
       /\ (req'.op = "truncate" /\ resp'.status = 200)
          => LET a == Join(Strip(req'.path))
                 size == ParseInt(req'.args[1])
             IN /\ disk'[a].kind = "file"
                /\ Len(disk'[a].data) = size
                /\ \E r \in getFileByPath(db', Strip(req'.path)) : r.size = size]_vars

\* C18, as stated: when a PATCH /files/chmod or /files/truncate that
\* responded 200 is applied a second time, the second application leaves the
\* file, its attributes on disk and its row as the first application left
\* them.
C18_SamePostState ==
    [][(again' /\ req'.op \in {"chmod", "truncate"} /\ resp.status = 200)
       => /\ resp'.status = 200
          /\ disk' = disk
          /\ stat' = stat
          /\ db' = db
          /\ meta' = meta]_vars

\* C18, amended: the second application leaves the file's content, size and
\* mode and the row's size and permissions as the first left them, and adds
\* one to the version of the path's row; a repeated chmod leaves the times
\* alone, a repeated truncate leaves the mtime alone or sets it, on disk and
\* in the row, to the time of the repetition.
C18_Idempotent ==
    [][(again' /\ req'.op \in {"chmod", "truncate"} /\ resp.status = 200)
       => LET a == Join(Strip(req'.path))
          IN /\ resp'.status = 200
             /\ disk' = disk
             /\ db' = db
             /\ stat'[a].mode = stat[a].mode
             /\ stat'[a].atime = stat[a].atime
             /\ stat'[a].mtime \in {stat[a].mtime, now}
             /\ req'.op = "chmod" => stat' = stat /\ meta'[a].mtime = meta[a].mtime
             /\ req'.op = "truncate" => meta'[a].mtime = stat'[a].mtime
             /\ meta'[a].permissions = meta[a].permissions
             /\ meta[a].version > 0 => meta'[a].version = meta[a].version + 1
             /\ \A b \in Followed \ {a} : stat'[b] = stat[b] /\ meta'[b] = meta[b]]_vars

\* A truncate to 2 bytes has been applied a second time, a second after the
\* first, and has touched the mtime.
C18_Witness ==
    /\ again
    /\ req.op = "truncate"
    /\ req.args = <<(<<2>>)>>
    /\ resp.status = 200
    /\ stat[FileW] = Stat(FileMode, 1, 2)
    /\ meta[FileW] = Meta(<<6, 4, 4>>, 2, 3)
    /\ disk[FileW] = File(<<1, 0>>)

\* C14: a file another process created or modified is announced in the end
\* (its row refreshed and an fs_change event emitted), whichever requests
\* were served for its path before: as long as the change has not been
\* announced, the watcher still holds an add or change event of the path.
C14_ChangeAnnounced ==
    \A a \in unseen :
        \E i \in DOMAIN fsEvents :
            fsEvents[i].path = a /\ fsEvents[i].ev \in {"add", "change"}

\* C15: the unlink of a file by another process stays pending until the add
\* of a different path or the 200 ms timer ends it; the add ends it with
\* exactly one 'rename' event from the unlinked path to the added one and the
\* row re-keyed, the timer with exactly one 'unlink' event and the row
\* deleted.
C15_UnlinkThenAdd ==
    [][/\ (handled'.ev = "unlink" /\ handled'.oob) => pendingUnlink' = handled'.path
       /\ (pendingUnlink # <<>> /\ pendingUnlink' # pendingUnlink)
          => \/ emitted' = <<FsChange("unlink", Clean(pendingUnlink), <<>>, UnlinkPayload)>>
             \/ emitted' = <<FsChange("rename", Clean(handled'.path), Clean(pendingUnlink),
                                      buildMetadataPayload(disk', stat', handled'.path))>>
       /\ (handled'.ev = "add" /\ handled'.oob
             /\ pendingUnlink # <<>> /\ pendingUnlink # handled'.path)
          => /\ emitted' = <<FsChange("rename", Clean(handled'.path), Clean(pendingUnlink),
                                      buildMetadataPayload(disk', stat', handled'.path))>>
             /\ getFileByPath(db', Clean(pendingUnlink)) = {}
             /\ \A r \in getFileByPath(db, Clean(pendingUnlink)) :
                   \E r2 \in getFileByPath(db', Clean(handled'.path)) : r2.id = r.id
       /\ handled'.ev = "timer"
          => /\ emitted' = <<FsChange("unlink", Clean(handled'.path), <<>>, UnlinkPayload)>>
             /\ getFileByPath(db', Clean(handled'.path)) = {}]_vars

C29_RenameWithoutPath ==
    [][(req'.op = "rename"
        /\ (req'.path \in {Missing, <<>>} \/ req'.path2 \in {Missing, <<>>}))
       => resp'.status = 400 /\ disk' = disk /\ db' = db]_vars

\* C30: for every path strictly inside the storage root the relPath of the
\* watcher's event is the key the HTTP API uses for the file, './' followed
\* by the path relative to the root, whatever the file names are.
C30_CanonicalKey ==
    \A i \in DOMAIN emitted :
        (handled.ev = "add" /\ Len(handled.path) > 1)
        => emitted[i].relPath = <<".">> \o Tail(handled.path)

----------------------------------------------------------------------------
\* The statements of the access object that write the version column, run in
\* any order on the rows of the followed paths (dao/fileDAO.js).

\* UPDATE files SET size = ?, nlink = ?, mtime = ?, version = version + 1
\* WHERE path = ?: the followed columns after syncMetadataFromDisk; a failing
\* stat is logged and nothing is updated.
syncMetadataMeta(m, d, st, a) ==
    IF m.version = 0 \/ ~ExistsSync(d, a) THEN m
    ELSE Meta(m.permissions, st.mtime, m.version + 1)

\* A caller of the access object ran one statement on path a.
Ran(op, a, b) ==
    /\ req' = Request(op, a, b, 0, <<>>, NoRange)
    /\ resp' = Status(0)
    /\ VersionsFit(meta')
    /\ nextId' <= MaxId + 1
    /\ Quiet
    /\ UNCHANGED <<disk, allOk, now, stat>>

\* f.createDirectory({path, ..., permissions: "755"})
CreateDirectory(a, mtime) ==
    \E c \in {createDirectory(db, nextId, a, Dirname(a), Basename(a), TRUE, 0)} :
       /\ db' = c.db
       /\ nextId' = nextId + c.used
       /\ meta' = IF c.err THEN meta ELSE [meta EXCEPT ![a] = Meta(<<7, 5, 5>>, mtime, 1)]
       /\ Ran("createDirectory", a, <<>>)

\* f.updateFile(fileData)
UpdateFile(a, size, mtime, permissions) ==
    \E u \in {updateFile(db, nextId, a, Dirname(a), Basename(a), FALSE, size)} :
       /\ db' = u.db
       /\ nextId' = nextId + u.used
       /\ meta' = [meta EXCEPT ![a] = updateFileMeta(@, mtime, permissions)]
       /\ Ran("updateFile", a, <<>>)

\* f.updatePermissions(path, permissions)
UpdatePermissions(a, permissions) ==
    /\ meta' = [meta EXCEPT ![a] = updatePermissions(@, permissions)]
    /\ UNCHANGED <<db, nextId>>
    /\ Ran("updatePermissions", a, <<>>)

\* f.rename(oldPath, newPath), as handleRename and the rename handler call it.
RenameRow(a, b) ==
    \E h \in {handleRename(db, meta, a, b)} :
       /\ a # b
       /\ db' = h.db
       /\ meta' = h.meta
       /\ UNCHANGED nextId
       /\ Ran("rename", a, b)

\* f.syncMetadataFromDisk(relPath)
SyncMetadataFromDisk(a) ==
    /\ db' = syncMetadataFromDisk(db, disk, a)
    /\ meta' = [meta EXCEPT ![a] = syncMetadataMeta(@, disk, stat[a], a)]
    /\ UNCHANGED nextId
    /\ Ran("syncMetadataFromDisk", a, <<>>)

\* f.deleteFile(path)
DeleteRow(a) ==
    \E h \in {handleFileDeletion(db, meta, a)} :
       /\ db' = h.db
       /\ meta' = h.meta
       /\ UNCHANGED nextId
       /\ Ran("deleteFile", a, <<>>)

\* The server starts on a storage directory that holds the followed files,
\* written at any second up to MaxTime, and on an empty table.
InitVersion ==
    /\ disk = [q \in DiskPaths |-> IF q = ROOT_DIR THEN Dir
                                    ELSE IF q \in Followed THEN File(<<1>>)
                                    ELSE Absent]
    /\ \E t \in 1..MaxTime : stat = [a \in Followed |-> Stat(FileMode, 1, t)]
    /\ db = {}
    /\ nextId = 1
    /\ req = Request("none", <<>>, <<>>, 0, <<>>, NoRange)
    /\ resp = Status(0)
    /\ allOk = TRUE
    /\ now = 1
    /\ meta = [a \in Followed |-> NoMeta]
    /\ backendChanges = {}
    /\ fsEvents = <<>>
    /\ pendingUnlink = <<>>
    /\ handled = NoEvent
    /\ emitted = <<>>
    /\ unseen = {}
    /\ again = FALSE
    /\ task = NoTask
    /\ pending = <<>>
    /\ calls = [k \in Callers |-> NoCall]

NextVersion ==
    \/ CreateDirectory(FileW, 1)
    \/ \E a \in Followed : UpdateFile(a, 0, 1, <<6, 4, 4>>)
    \/ UpdatePermissions(FileW, <<6, 0, 0>>)
    \/ \E a \in Followed, b \in Followed : RenameRow(a, b)
    \/ \E a \in Followed : SyncMetadataFromDisk(a)
    \/ DeleteRow(FileW)

SpecVersion == InitVersion /\ [][NextVersion]_vars

----------------------------------------------------------------------------
\* Changes of the followed files by other processes and the watcher, with no
\* request served.
NextOob ==
    \/ \E a \in Followed, data \in {<<2>>, <<1, 2>>} : FsWrite(a, data)
    \/ \E a \in Followed : FsUnlink(a)
    \/ \E a \in Followed, b \in Followed : FsRename(a, b)
    \/ Watch
    \/ Timer

SpecOob == Init /\ [][NextOob]_vars

\* C21: with no request served, once the watcher has handled every event and
\* no unlink timer is pending, the table has a row for a followed path exactly
\* when the file exists on disk.
C21_TableMatchesDisk ==
    (fsEvents = <<>> /\ pendingUnlink = <<>>)
    => \A a \in Followed : (getFileByPath(db, Clean(a)) # {}) <=> (disk[a].kind = "file")

\* C22: the removal of a followed file by another process is reported in
\* the end: as long as the row of the removed file is in the table, the watcher
\* still holds the unlink event of the path or its 200 ms timer is pending.
C22_RemovalReported ==
    \A a \in Followed :
        (disk[a].kind = "none" /\ getFileByPath(db, Clean(a)) # {})
        => \/ pendingUnlink = a
           \/ \E i \in DOMAIN fsEvents : fsEvents[i].path = a /\ fsEvents[i].ev = "unlink"

\* C23: when the watcher emits an fs_change event with op add, change or
\* rename for a path (newPath for a rename), the table has a row for that path
\* whose size, mtime and permissions are the ones the event carries.
C23_EventMatchesRow ==
    [][\A i \in DOMAIN emitted' :
          LET ev == emitted'[i]
              a == Join(ev.relPath)
          IN (ev.op \in {"add", "change", "rename"} /\ a \in Followed)
             => /\ \E r \in getFileByPath(db', ev.relPath) : r.size = ev.payload.size
                /\ meta'[a].mtime = ev.payload.mtime
                /\ meta'[a].permissions = ev.payload.permissions]_vars

----------------------------------------------------------------------------
\* Requests for one path handled concurrently, each handler at its own await.
CallPath == <<".", "a">>

NextCalls ==
    \/ \E k \in Callers, op \in {"mkdir", "put", "delete"} : Begin(k, op, CallPath)
    \/ \E k \in Callers : AwaitMkdir(k)
    \/ \E k \in Callers : AwaitCreateDirectory(k)
    \/ \E k \in Callers : AwaitOpen(k)
    \/ \E k \in Callers : AwaitWrite(k, <<1>>)
    \/ \E k \in Callers : AwaitStat(k)
    \/ \E k \in Callers : AwaitUpdateFile(k)
    \/ \E k \in Callers : AwaitUnlink(k)
    \/ \E k \in Callers : AwaitDeleteFile(k)
    \/ \E k \in Callers : AwaitSyncMetadata(k)

SpecCalls == Init /\ [][NextCalls]_vars

\* C26: when every one of several concurrent POST /mkdir for the same path,
\* which did not exist and whose parent exists, has responded, exactly one
\* responded 201, every other one 409, and the path has exactly one row.
C26_OneCreated ==
    (\A k \in Callers : calls[k].op = "mkdir" /\ calls[k].pc = "done")
    => /\ Cardinality({k \in Callers : calls[k].status = 201}) = 1
       /\ \A k \in Callers : calls[k].status \in {201, 409}
       /\ Cardinality(getFileByPath(db, CallPath)) = 1

\* C27: when concurrent PUT and DELETE requests for one path have all
\* responded, the path has a row exactly when the file exists, and the row's
\* size is the file's size.
C27_TableAgrees ==
    (/\ \A k \in Callers : calls[k].op \in {"put", "delete"} /\ calls[k].pc = "done"
     /\ \E k \in Callers : calls[k].op = "put"
     /\ \E k \in Callers : calls[k].op = "delete")
    => /\ (getFileByPath(db, CallPath) # {}) <=> (disk[Join(CallPath)].kind = "file")
       /\ \A r \in getFileByPath(db, CallPath) : r.size = StatSize(disk, Join(CallPath))

\* C24: when a PATCH /files/rename responds 404 because its source does not
\* exist, a file that was at the destination is still there with the same
\* content, and so is its row.
C24_FailedRenameKeepsTarget ==
    [][LET old == Join(Strip(req'.path))
           new == Join(Strip(req'.path2))
       IN (/\ req'.op = "rename"
           /\ req'.path # Missing /\ req'.path2 # Missing
           /\ Strip(req'.path) # <<>> /\ Strip(req'.path2) # <<>>
           /\ resp'.status = 404
           /\ ~ExistsSync(disk, old)
           /\ new \in DiskPaths /\ disk[new].kind = "file")
          => /\ disk'[new] = disk[new]
             /\ getFileByPath(db, Strip(req'.path2)) \subseteq db']_vars

\* C25: when a PATCH /files/rename of directory A to B responds 200, the rows
\* that /list returned for A are returned for B with path and parent
\* rewritten, and /list returns no row for A.
C25_ChildrenFollow ==
    [][LET A == Strip(req'.path)
           B == Strip(req'.path2)
       IN (/\ req'.op = "rename"
           /\ resp'.status = 200
           /\ A # B
           /\ disk[Join(A)].kind = "dir")
          => /\ ListDir(db', A) = {}
             /\ {<<r.id, r.path, r.parent>> : r \in ListDir(db', B)}
                = {<<r.id, Rebase(r.path, A, B), B>> : r \in ListDir(db, A)}]_vars

\* C28: the version of a row that stays in the table never decreases: each
\* statement of the access object leaves it alone or adds exactly 1, and adds
\* 1 whenever it changes the row's size, mtime, permissions, name or path and
\* whenever it is updateFile or updatePermissions on the row's path, a rename
\* of the row or a syncMetadataFromDisk of an existing entry; a new row starts
\* at version 1.
C28_VersionStep ==
    [][/\ \A r \in db, r2 \in db' :
             (r.id = r2.id /\ r.path \in Followed /\ r2.path \in Followed)
             => LET v == meta[r.path].version
                    v2 == meta'[r2.path].version
                    changed == \/ r2.size # r.size
                               \/ r2.path # r.path
                               \/ r2.name # r.name
                               \/ meta'[r2.path].mtime # meta[r.path].mtime
                               \/ meta'[r2.path].permissions # meta[r.path].permissions
                    ran == /\ req'.path = r.path
                           /\ \/ req'.op \in {"updateFile", "updatePermissions"}
                              \/ req'.op = "rename" /\ r2.path = req'.path2
                              \/ req'.op = "syncMetadataFromDisk" /\ ExistsSync(disk, r.path)
                IN /\ v2 \in {v, v + 1}
                   /\ (changed \/ ran) => v2 = v + 1
       /\ \A r2 \in db' :
             (r2.path \in Followed /\ r2.id \notin {r.id : r \in db})
             => meta'[r2.path].version = 1]_vars

\* A row that was created, updated and then renamed.
C28_Witness ==
    /\ req.op = "rename"
    /\ req.path2 \in Followed
    /\ getFileByPath(db, req.path) = {}
    /\ meta[req.path2].version > 2

====
